---- MODULE Spec2Model ----
(***************************************************************************)
(* Birth-timing scoring engine: solar-cycle model, seasonal-risk model,    *)
(* optimal-timing engine, range aggregation and the solar-sample cache.    *)
(*                                                                         *)
(* Numbers.  The source computes with IEEE doubles.  Here every real is a  *)
(* fixed-point integer with Scale units per 1.0; angles are integers with  *)
(* Turn units per full circle (so the twelve month angles are exact).      *)
(* Math.sin / Math.cos / Math.exp are evaluated by their power series in   *)
(* that fixed point.  Quantities the source rounds to integers (scores,    *)
(* sunspot numbers) are integers here; lifespanImpact, which the source    *)
(* rounds to one decimal, is an integer number of tenths.                  *)
(***************************************************************************)
EXTENDS Integers, Sequences, FiniteSets, TLC

Scale == 100 * 100
Turn == 12 * Scale

(* ---------------------------- bounds ---------------------------------- *)
\* latitudes are the whole degrees in [-90,90] that are multiples of LatStep
LatStep == 15
\* target years FirstYear..LastYear
FirstYear == 2022
LastYear == 2024
\* a year late in the same solar cycle, in which the sunspot number falls to zero
QuietYear == 2026
\* years CycleFirstYear..CycleLastYear of the dates the solar model is asked for
CycleFirstYear == 1962
CycleLastYear == 2043
\* Math.random() takes the values k/(2*NoiseSteps), k in 0..2*NoiseSteps-1
NoiseSteps == 2
\* largest rangeMonths passed to analyzeTimingRange
\* sunspot numbers 0..MaxSunspots are given to the solar data computation
MaxSunspots == 360
MaxRange == 2
\* geocodeAddress is called at most MaxCalls times
\* the dashboard: the user changes the date at most MaxChanges times and asks
\* for the location at most MaxRefreshes times; time passes in steps of TickMs
MaxChanges == 2
MaxRefreshes == 1
TickMs == 150
MaxCalls == 3
\* the months on either side of the selected date whose draws vary in a report
VariedMonths == 1
\* the months on either side of centerDate in a long range
LongRange == 4

(* ------------------------- Math primitives ---------------------------- *)
Abs(x) == IF x < 0 THEN -x ELSE x
Max(a, b) == IF a >= b THEN a ELSE b
Min(a, b) == IF a <= b THEN a ELSE b

\* floor(n / d) for d > 0, also for negative n
FloorDiv(n, d) == IF n >= 0 THEN n \div d ELSE -((-n + d - 1) \div d)

\* Math.round of the rational n/d (d > 0): floor(n/d + 1/2), ties go up
MathRound(n, d) == FloorDiv(2 * n + d, 2 * d)

\* Math.round of a double that is the rational n/d up to rounding error: when
\* n/d is an exact half the error decides the side, and halfDown says that the
\* double fell below the half
MathRoundInexact(n, d, halfDown) ==
    IF halfDown /\ (2 * n + d) % (2 * d) = 0 THEN MathRound(n, d) - 1 ELSE MathRound(n, d)

\* Math.ceil of the rational n/d (d > 0)
MathCeil(n, d) == -FloorDiv(-n, d)

\* sin of q/Turn of a circle for 0 <= q <= Turn/4, by its power series
SinQuarter(q) ==
    LET x  == (q * 62832) \div Turn      \* radians, fixed point
        x2 == (x * x) \div Scale
        t3 == ((x * x2) \div Scale) \div 6
        t5 == ((t3 * x2) \div Scale) \div 20
        t7 == ((t5 * x2) \div Scale) \div 42
        t9 == ((t7 * x2) \div Scale) \div 72
    IN  x - t3 + t5 - t7 + t9

\* Math.sin(2*pi*t/Turn), fixed point
MathSin(t) ==
    LET u == t % Turn
    IN  IF u <= Turn \div 4 THEN SinQuarter(u)
        ELSE IF u <= Turn \div 2 THEN SinQuarter(Turn \div 2 - u)
        ELSE IF u <= 3 * (Turn \div 4) THEN -SinQuarter(u - Turn \div 2)
        ELSE -SinQuarter(Turn - u)

\* Math.cos(2*pi*t/Turn), fixed point
MathCos(t) == MathSin(t + Turn \div 4)

\* Math.exp(-y/Scale) for y >= 0, fixed point: (exp(-y/4))^4 by series
MathExpNeg(y) ==
    LET z  == y \div 4
        a1 == z
        a2 == ((a1 * z) \div Scale) \div 2
        a3 == ((a2 * z) \div Scale) \div 3
        a4 == ((a3 * z) \div Scale) \div 4
        a5 == ((a4 * z) \div Scale) \div 5
        a6 == ((a5 * z) \div Scale) \div 6
        a7 == ((a6 * z) \div Scale) \div 7
        a8 == ((a7 * z) \div Scale) \div 8
        e  == Scale - a1 + a2 - a3 + a4 - a5 + a6 - a7 + a8
        e2 == (e * e) \div Scale
    IN  (e2 * e2) \div Scale

(* --------------------------- geolocation ------------------------------ *)
calculateDistanceFromEquator(latitude) == Abs(latitude)

isNorthernHemisphere(latitude) == latitude > 0

\* month is 1..12; result is the UV intensity in fixed point, in [0, 11]
calculateUVIntensityByLatitude(latitude, month) ==
    LET distanceFromEquator == calculateDistanceFromEquator(latitude)
        baseIntensity == Max(0, 10 * Scale - (distanceFromEquator * 10 * Scale) \div 90)
        seasonalMultiplier ==
            IF isNorthernHemisphere(latitude)
            THEN FloorDiv(MathCos((month - 6 + 12) * (Turn \div 12)) * 3, 10) + Scale
            ELSE FloorDiv(MathCos((month - 12 + 12) * (Turn \div 12)) * 3, 10) + Scale
    IN  Max(0, Min(11 * Scale, (baseIntensity * seasonalMultiplier) \div Scale))

(* --------------------------- seasonal-risk ---------------------------- *)
\* disease-risk multipliers by birth month (Northern Hemisphere), in hundredths
NORTHERN_HEMISPHERE_DISEASE_RISKS ==
    <<[cardiovascular |-> 106, mentalHealth |-> 108, autoimmune |-> 94,  respiratory |-> 112, infectious |-> 115],
      [cardiovascular |-> 105, mentalHealth |-> 106, autoimmune |-> 96,  respiratory |-> 110, infectious |-> 112],
      [cardiovascular |-> 102, mentalHealth |-> 102, autoimmune |-> 98,  respiratory |-> 105, infectious |-> 108],
      [cardiovascular |-> 98,  mentalHealth |-> 96,  autoimmune |-> 102, respiratory |-> 98,  infectious |-> 102],
      [cardiovascular |-> 95,  mentalHealth |-> 92,  autoimmune |-> 105, respiratory |-> 92,  infectious |-> 95],
      [cardiovascular |-> 92,  mentalHealth |-> 88,  autoimmune |-> 108, respiratory |-> 88,  infectious |-> 88],
      [cardiovascular |-> 90,  mentalHealth |-> 85,  autoimmune |-> 110, respiratory |-> 85,  infectious |-> 82],
      [cardiovascular |-> 92,  mentalHealth |-> 88,  autoimmune |-> 108, respiratory |-> 88,  infectious |-> 85],
      [cardiovascular |-> 95,  mentalHealth |-> 92,  autoimmune |-> 105, respiratory |-> 92,  infectious |-> 90],
      [cardiovascular |-> 98,  mentalHealth |-> 96,  autoimmune |-> 102, respiratory |-> 98,  infectious |-> 95],
      [cardiovascular |-> 102, mentalHealth |-> 102, autoimmune |-> 98,  respiratory |-> 105, infectious |-> 102],
      [cardiovascular |-> 105, mentalHealth |-> 106, autoimmune |-> 96,  respiratory |-> 110, infectious |-> 110]>>

\* date-fns getMonth: 0..11
getMonth(date) == date.month

\* date-fns getYear
getYear(date) == date.year

\* the sum of calculateUVIntensityByLatitude over months birthMonth .. birthMonth+i-1
RECURSIVE CriticalMonthsSum(_, _, _)
CriticalMonthsSum(latitude, birthMonth, i) ==
    IF i = 0 THEN 0
    ELSE CriticalMonthsSum(latitude, birthMonth, i - 1)
         + calculateUVIntensityByLatitude(latitude, ((birthMonth - 1 + (i - 1)) % 12) + 1)

\* vitamin D synthesis potential, fixed point, in [0, 100]
calculateVitaminDSynthesis(location, birthDate) ==
    LET birthMonth == getMonth(birthDate) + 1
        averageCriticalUV == CriticalMonthsSum(location.latitude, birthMonth, 6) \div 6
    IN  Max(0, Min(100 * Scale, averageCriticalUV * 10))

\* the adjustment with the + 1 left out: a zero-based month
AdjustedMonthZeroBased(birthMonth, latitude) ==
    IF isNorthernHemisphere(latitude) THEN birthMonth ELSE (birthMonth + 6) % 12

\* the adjustment shifted by seven months instead of six
AdjustedMonthSevenLater(birthMonth, latitude) ==
    IF isNorthernHemisphere(latitude) THEN birthMonth ELSE ((birthMonth + 6) % 12) + 1

\* the hemisphere adjustment of the birth month (seasons are opposite)
AdjustedMonth(birthMonth, latitude) ==
    IF isNorthernHemisphere(latitude) THEN birthMonth ELSE ((birthMonth + 5) % 12) + 1

\* the value undefined
Undefined == [undefined |-> TRUE]

\* NORTHERN_HEMISPHERE_DISEASE_RISKS[adjustedMonth]: an absent key reads as undefined
RiskRow(adjustedMonth) ==
    IF adjustedMonth \in DOMAIN NORTHERN_HEMISPHERE_DISEASE_RISKS
    THEN NORTHERN_HEMISPHERE_DISEASE_RISKS[adjustedMonth]
    ELSE Undefined

\* the infectious multiplier (hundredths), or the thrown TypeError when the
\* row is undefined (riskData.infectious is then a property read of undefined)
calculateInfectiousRisk(birthDate, location) ==
    LET birthMonth == getMonth(birthDate) + 1
        riskData == RiskRow(AdjustedMonth(birthMonth, location.latitude))
    IN  IF riskData = Undefined THEN [threw |-> "TypeError"]
        ELSE [threw |-> "no", value |-> riskData.infectious]

\* the school-year cutoff month of a country; "undefined" is the missing
\* argument, which takes the default parameter value 'US'
CutoffMonth(country) ==
    LET c == IF country = "undefined" THEN "US" ELSE country
    IN  CASE c = "US" -> 9
          [] c = "UK" -> 9
          [] c = "Canada" -> 9
          [] c = "Australia" -> 1
          [] c = "Germany" -> 6
          [] c = "France" -> 9
          [] c = "Japan" -> 4
          [] OTHER -> 9

\* the relative age advantage without the + 12 that keeps the remainder from
\* being negative: JavaScript's % takes the sign of the dividend
calculateRelativeAgeEffectNoWrap(birthDate, country) ==
    LET birthMonth == getMonth(birthDate) + 1
        cutoffMonth == CutoffMonth(country)
        monthsFromCutoff == IF birthMonth < cutoffMonth
                            THEN -((cutoffMonth - birthMonth) % 12)
                            ELSE (birthMonth - cutoffMonth) % 12
    IN  Max(0, 100 * 100 - monthsFromCutoff * 833)

\* relative age advantage in hundredths, in [0, 100]
calculateRelativeAgeEffect(birthDate, country) ==
    LET birthMonth == getMonth(birthDate) + 1
        cutoffMonth == CutoffMonth(country)
        monthsFromCutoff == (birthMonth - cutoffMonth + 12) % 12
    IN  Max(0, 100 * 100 - monthsFromCutoff * 833)

\* the whole risk row (hundredths), or the thrown TypeError
calculateDiseaseRisks(birthDate, location) ==
    LET birthMonth == getMonth(birthDate) + 1
        riskData == RiskRow(AdjustedMonth(birthMonth, location.latitude))
    IN  IF riskData = Undefined THEN [threw |-> "TypeError"]
        ELSE [threw |-> "no", value |-> riskData]

\* SeasonalRiskData (threw = "no"), or the exception a callee threw
calculateSeasonalRisk(birthDate, location) ==
    LET birthMonth == getMonth(birthDate) + 1
        \* the risks normalized to a 0-100 scale are whole numbers
        Data(vitaminDScore, relativeAgeAdvantage, normalizedInfectiousRisk,
             normalizedCardiovascularRisk, normalizedMentalHealthRisk, normalizedAutoImmuneRisk,
             overallSeasonalScore) ==
            [threw |-> "no",
             birthMonth |-> birthMonth,
             vitaminDScore |-> MathRound(vitaminDScore, Scale),
             infectiousRisk |-> normalizedInfectiousRisk,
             relativeAgeAdvantage |-> MathRound(relativeAgeAdvantage, 100),
             cardiovascularRisk |-> normalizedCardiovascularRisk,
             mentalHealthRisk |-> normalizedMentalHealthRisk,
             autoImmuneRisk |-> normalizedAutoImmuneRisk,
             overallSeasonalScore |-> overallSeasonalScore,
             riskLevel |-> IF overallSeasonalScore >= 70 THEN "LOW"
                           ELSE IF overallSeasonalScore >= 50 THEN "MEDIUM" ELSE "HIGH"]
        \* the weighted sum is in units of 1/(100*Scale)
        Normalized(vitaminDScore, relativeAgeAdvantage, normalizedInfectiousRisk,
                   normalizedCardiovascularRisk, normalizedMentalHealthRisk,
                   normalizedAutoImmuneRisk) ==
            Data(vitaminDScore, relativeAgeAdvantage, normalizedInfectiousRisk,
                 normalizedCardiovascularRisk, normalizedMentalHealthRisk, normalizedAutoImmuneRisk,
                 MathRound(vitaminDScore * 30
                           + (100 - Min(100, normalizedInfectiousRisk)) * Scale * 25
                           + relativeAgeAdvantage * (Scale \div 100) * 15
                           + (100 - Min(100, normalizedCardiovascularRisk)) * Scale * 15
                           + (100 - Min(100, normalizedMentalHealthRisk)) * Scale * 10
                           + (100 - Min(100, normalizedAutoImmuneRisk)) * Scale * 5,
                           100 * Scale))
        Computed(vitaminDScore, infectiousRisk, relativeAgeAdvantage, diseaseRisks) ==
            Normalized(vitaminDScore, relativeAgeAdvantage,
                       Max(0, (infectiousRisk - 80) * 5),
                       Max(0, (diseaseRisks.cardiovascular - 90) * 5),
                       Max(0, (diseaseRisks.mentalHealth - 85) * 4),
                       Max(0, Abs(diseaseRisks.autoimmune - 100) * 10))
        Called(infectious, disease) ==
            IF infectious.threw # "no" THEN [threw |-> infectious.threw]
            ELSE IF disease.threw # "no" THEN [threw |-> disease.threw]
            ELSE Computed(calculateVitaminDSynthesis(location, birthDate),
                          infectious.value,
                          calculateRelativeAgeEffect(birthDate, location.country),
                          disease.value)
    IN  Called(calculateInfectiousRisk(birthDate, location),
               calculateDiseaseRisks(birthDate, location))

\* the seasonal advisory strings, in the order they are pushed
getSeasonalRecommendations(birthDate, location) ==
    LET Pushed(seasonalRisk) ==
        (IF seasonalRisk.vitaminDScore < 50
         THEN <<"Consider vitamin D supplementation during pregnancy and early infancy">> ELSE <<>>)
     \o (IF seasonalRisk.infectiousRisk > 70
         THEN <<"Take extra precautions against infections during the first 6 months">> ELSE <<>>)
     \o (IF seasonalRisk.relativeAgeAdvantage < 30
         THEN <<"Child may benefit from delayed school entry or summer programs">> ELSE <<>>)
     \o (IF seasonalRisk.cardiovascularRisk > 60
         THEN <<"Monitor cardiovascular health markers throughout life">> ELSE <<>>)
     \o (IF seasonalRisk.mentalHealthRisk > 60
         THEN <<"Be aware of increased mental health risks and ensure good support systems">> ELSE <<>>)
    IN  Pushed(calculateSeasonalRisk(birthDate, location))

(* ----------------------------- solar-cycle ---------------------------- *)
SOLAR_CYCLES ==
    <<[cycleNumber |-> 20, startYear |-> 1964, peakYear |-> 1968, endYear |-> 1976, maxSunspots |-> 156, phase |-> "minimum"],
      [cycleNumber |-> 21, startYear |-> 1976, peakYear |-> 1979, endYear |-> 1986, maxSunspots |-> 232, phase |-> "minimum"],
      [cycleNumber |-> 22, startYear |-> 1986, peakYear |-> 1989, endYear |-> 1996, maxSunspots |-> 212, phase |-> "minimum"],
      [cycleNumber |-> 23, startYear |-> 1996, peakYear |-> 2000, endYear |-> 2008, maxSunspots |-> 180, phase |-> "minimum"],
      [cycleNumber |-> 24, startYear |-> 2008, peakYear |-> 2012, endYear |-> 2019, maxSunspots |-> 146, phase |-> "minimum"],
      [cycleNumber |-> 25, startYear |-> 2019, peakYear |-> 2024, endYear |-> 2030, maxSunspots |-> 137, phase |-> "ascending"]>>

predictFutureSolarCycle(date) ==
    LET year == getYear(date)
        lastCycle == SOLAR_CYCLES[Len(SOLAR_CYCLES)]
        cyclesAhead == MathCeil(year - lastCycle.endYear, 11)
        startYear == lastCycle.endYear + ((cyclesAhead - 1) * 11)
    IN  IF year > lastCycle.endYear
        THEN [cycleNumber |-> lastCycle.cycleNumber + cyclesAhead,
              startYear |-> startYear,
              peakYear |-> startYear + 4,
              endYear |-> startYear + 11,
              maxSunspots |-> 140,
              phase |-> "minimum"]
        ELSE lastCycle

\* Array.prototype.find: the first table row whose years contain the date's
getSolarCycleForDate(date) ==
    LET year == getYear(date)
        found == {i \in DOMAIN SOLAR_CYCLES :
                    year >= SOLAR_CYCLES[i].startYear /\ year <= SOLAR_CYCLES[i].endYear}
    IN  IF found # {}
        THEN SOLAR_CYCLES[CHOOSE i \in found : \A j \in found : i <= j]
        ELSE predictFutureSolarCycle(date)

\* the noise at three times its amplitude: (Math.random() - 0.5) * 60
NaturalVariationTripled(k) == FloorDiv(k * 30 * Scale, NoiseSteps) - 30 * Scale

\* (Math.random() - 0.5) * 20 in fixed point, for the draw random = k/(2*NoiseSteps)
NaturalVariation(k) == FloorDiv(k * 10 * Scale, NoiseSteps) - 10 * Scale

\* the draws Math.random() can return
RandomDraws == 0 .. (2 * NoiseSteps - 1)

\* the sunspots without the floor at zero
ClampSunspotsMissing(sunspots) == sunspots

\* Math.max(0, ...) around the sunspots before they are rounded
ClampSunspots(sunspots) == Max(0, sunspots)

\* the sunspot number for the draw k of Math.random()
calculateSunspotNumber(date, k) ==
    LET year == getYear(date)
        month == getMonth(date)
        \* yearInCycle in twelfths of a year; cycleProgress as an angle (Turn
        \* units per 1.0) and in fixed point
        Sunspots(cycle, cycleLength, yearInCycle12) ==
            LET \* exp(-8 * deviation^2) is below the fixed point's precision
                \* from |deviation| = 2 on
                PeakAdjustment(deviation) ==
                    IF Abs(deviation) >= 2 * Scale THEN 0
                    ELSE MathExpNeg(8 * ((deviation * deviation) \div Scale))
                BaseActivity(phaseTurn) ==
                    IF phaseTurn >= 0 THEN MathSin(phaseTurn) ELSE -MathSin(-phaseTurn)
                phaseTurn == FloorDiv(yearInCycle12 * (Turn \div 12), cycleLength)
                cycleProgress == FloorDiv(yearInCycle12 * Scale, 12 * cycleLength)
                baseActivity == BaseActivity(phaseTurn)
                peakAdjustment == PeakAdjustment(cycleProgress - (36 * Scale) \div 100)
            IN  ClampSunspots(FloorDiv((baseActivity * 7 + peakAdjustment * 8) * cycle.maxSunspots, 10)
                              + NaturalVariation(k))
        OfCycle(cycle) ==
            Sunspots(cycle, cycle.endYear - cycle.startYear, (year - cycle.startYear) * 12 + month)
    IN  MathRound(OfCycle(getSolarCycleForDate(date)), Scale)

\* UV level in fixed point
calculateUVFromSolarActivity(sunspotNumber) ==
    LET baseUV == 5
        \* 1 + (sunspotNumber / 200) * 0.3, in fixed point
        solarMultiplier == Scale + (sunspotNumber * 3 * Scale) \div 2000
    IN  Min(11 * Scale, baseUV * solarMultiplier)

\* lifespan impact before the monthly variation, in fixed point
LifespanImpactOf(normalizedSunspots) ==
    IF normalizedSunspots < 30
    THEN (5 * Scale) \div 10 - (normalizedSunspots * 8 * Scale) \div 300
    ELSE IF normalizedSunspots < 120
    THEN -((3 * Scale) \div 10) - ((normalizedSunspots - 30) * 45 * Scale) \div 900
    ELSE -((48 * Scale) \div 10) - ((normalizedSunspots - 120) * 18 * Scale) \div 800

\* the sunspot number without the cap at 200
NormalizedSunspotsUncapped(sunspotNumber) == Max(0, sunspotNumber)

\* Math.max(0, Math.min(200, sunspotNumber))
NormalizedSunspots(sunspotNumber) == Max(0, Min(200, sunspotNumber))

\* SolarActivityData of a sunspot number, the part of calculateSolarActivityData
\* after calculateSunspotNumber has returned.
\* SolarActivityData for the three draws of Math.random() (sunspot noise, flux,
\* geomagnetic); lifespanImpact is in tenths of a year, the other reals in
\* fixed point.  draws.halfDown is the side the doubles fall on at exact halves.
SolarActivityDataOf(date, sunspotNumber, draws) ==
    LET \* cycleProgress < 0.2, 0.5, 0.7 compared without dividing
        Phase(yearInCycle, cycleLength) ==
            IF yearInCycle * 10 < 2 * cycleLength THEN "minimum"
            ELSE IF yearInCycle * 10 < 5 * cycleLength THEN "ascending"
            ELSE IF yearInCycle * 10 < 7 * cycleLength THEN "maximum"
            ELSE "descending"
        PhaseOf(cycle) == Phase(getYear(date) - cycle.startYear, cycle.endYear - cycle.startYear)
        monthVariation == (getMonth(date) - 6) * (Scale \div 10)
        FinalLifespanImpact(lifespanImpact) ==
            MathRoundInexact((lifespanImpact + monthVariation) * 10, Scale, draws.halfDown)
        Data ==
            [date |-> date,
             sunspotNumber |-> sunspotNumber,
             solarFluxIndex |-> Max(70 * Scale, (sunspotNumber + 70) * Scale
                                                + (draws.flux * 30 * Scale) \div (2 * NoiseSteps)),
             geomagneticIndex |-> Max(0, Min(9 * Scale, (sunspotNumber * Scale) \div 30
                                                + (draws.geomagnetic * 2 * Scale) \div (2 * NoiseSteps))),
             cosmicRayIntensity |-> Max(0, 100 * Scale - (sunspotNumber * Scale) \div 2),
             cyclePhase |-> PhaseOf(getSolarCycleForDate(date)),
             lifespanImpact |-> FinalLifespanImpact(LifespanImpactOf(NormalizedSunspots(sunspotNumber))),
             uvRadiationLevel |-> calculateUVFromSolarActivity(sunspotNumber)]
    IN  Data

\* calculateSolarActivityData(date): the data for the sunspot number of the date
calculateSolarActivityData(date, draws) ==
    SolarActivityDataOf(date, calculateSunspotNumber(date, draws.sunspot), draws)

\* the risk level with HIGH starting at 120 sunspots instead of 100
getSolarRiskLevelLateHigh(sunspotNumber) ==
    IF sunspotNumber < 50 THEN "LOW"
    ELSE IF sunspotNumber < 120 THEN "MEDIUM"
    ELSE "HIGH"

getSolarRiskLevel(sunspotNumber) ==
    IF sunspotNumber < 50 THEN "LOW"
    ELSE IF sunspotNumber < 100 THEN "MEDIUM"
    ELSE "HIGH"

\* the multiplier with 1.5 at solar maximum
calculateMentalHealthRiskHalfMore(sunspotNumber) ==
    LET baseRisk == 10
        solarMaximumMultiplier == IF sunspotNumber > 90 THEN 15 ELSE 10
    IN  (baseRisk * solarMaximumMultiplier) \div 10

\* the multiplier in tenths: 13 is 1.3, 10 is 1.0
calculateMentalHealthRisk(sunspotNumber) ==
    LET baseRisk == 10
        solarMaximumMultiplier == IF sunspotNumber > 90 THEN 13 ELSE 10
    IN  (baseRisk * solarMaximumMultiplier) \div 10

(* ------------------------- Array.prototype.sort ----------------------- *)
\* The comparator of the recommendation sort is not a consistent comparison
\* function (it answers -1 for two critical strings in either order), so the
\* order it produces is the sorting algorithm's.  Two algorithms are modelled:
\* "v8" (run detection followed by binary insertion, the path V8 takes for
\* fewer than 64 elements) and "insertion" (straight insertion, the path
\* SpiderMonkey takes for short arrays).  Both are stable for a consistent
\* comparator.
SortEngines == {"v8", "insertion"}

Reverse(seq) == [i \in 1 .. Len(seq) |-> seq[Len(seq) + 1 - i]]

\* the move without the shift: the element at from overwrites the one at to
MoveDownOverwriting(seq, from, to) ==
    [i \in 1 .. Len(seq) |-> IF i = to THEN seq[from] ELSE seq[i]]

\* seq with its element at position from moved to position to (to <= from)
MoveDown(seq, from, to) ==
    [i \in 1 .. Len(seq) |->
        IF i < to \/ i > from THEN seq[i]
        ELSE IF i = to THEN seq[from]
        ELSE seq[i - 1]]

\* compareFn is the comparator as a function on pairs of elements of arr
ArraySort(arr, engine, compareFn) ==
    LET n == Len(arr)
        Cmp(a, b) == compareFn[a, b]
        \* --- V8: CountAndMakeRun over the whole array
        isDescending == Cmp(arr[2], arr[1]) < 0
        RECURSIVE RunLength(_)
        RunLength(idx) ==
            IF idx > n THEN n
            ELSE LET order == Cmp(arr[idx], arr[idx - 1])
                 IN  IF (isDescending /\ order >= 0) \/ (~isDescending /\ order < 0)
                     THEN idx - 1
                     ELSE RunLength(idx + 1)
        runLength == RunLength(3)
        withRun == IF isDescending
                   THEN Reverse(SubSeq(arr, 1, runLength)) \o SubSeq(arr, runLength + 1, n)
                   ELSE arr
        \* --- V8: BinaryInsertionSort; left and right are 0-based as in the engine
        RECURSIVE BinarySearch(_, _, _, _)
        BinarySearch(a, pivot, left, right) ==
            IF left >= right THEN left
            ELSE LET mid == left + ((right - left) \div 2)
                 IN  IF Cmp(pivot, a[mid + 1]) < 0
                     THEN BinarySearch(a, pivot, left, mid)
                     ELSE BinarySearch(a, pivot, mid + 1, right)
        RECURSIVE BinaryInsertionSort(_, _)
        BinaryInsertionSort(a, start) ==
            IF start >= n THEN a
            ELSE LET left == BinarySearch(a, a[start + 1], 0, start)
                 IN  BinaryInsertionSort(MoveDown(a, start + 1, left + 1), start + 1)
        \* --- straight insertion sort; i and j are 0-based
        RECURSIVE InsertPosition(_, _, _)
        InsertPosition(a, item, j) ==
            IF j < 0 THEN j
            ELSE IF Cmp(a[j + 1], item) <= 0 THEN j
            ELSE InsertPosition(a, item, j - 1)
        RECURSIVE InsertionSort(_, _)
        InsertionSort(a, i) ==
            IF i >= n THEN a
            ELSE LET j == InsertPosition(a, a[i + 1], i - 1)
                 IN  InsertionSort(MoveDown(a, i + 1, j + 2), i + 1)
    IN  IF n < 2 THEN arr
        ELSE IF engine = "v8" THEN BinaryInsertionSort(withRun, runLength)
        ELSE InsertionSort(arr, 1)

\* [...new Set(seq)]: the first occurrence of every element, in insertion order
RECURSIVE SetSpread(_)
SetSpread(seq) ==
    IF seq = <<>> THEN <<>>
    ELSE LET init == SetSpread(SubSeq(seq, 1, Len(seq) - 1))
             x == seq[Len(seq)]
         IN  IF \E i \in DOMAIN init : init[i] = x THEN init ELSE Append(init, x)

(* ------------------------ optimal-timing engine ----------------------- *)
\* A recommendation string is its literal text cut at the two markers the
\* sort looks for, plus the number interpolated into it (a lifespan impact in
\* tenths as printed by toFixed(1), or the month printed by format 'MMMM';
\* 0 when nothing is interpolated).
CRITICAL == "[warning-sign] CRITICAL"
DELAYING == "Consider delaying"

Str(text, arg) == [text |-> text, arg |-> arg]

\* String.prototype.includes for one of the two markers
Includes(str, marker) == \E i \in DOMAIN str.text : str.text[i] = marker

\* the comparator with the sign of its second test flipped
RecommendationCompareFlipped(a, b) ==
    IF Includes(a, CRITICAL) THEN -1
    ELSE IF Includes(b, CRITICAL) THEN -1
    ELSE IF Includes(a, DELAYING) THEN -1
    ELSE IF Includes(b, DELAYING) THEN 1
    ELSE 0

\* the comparator without its final tie: two strings without a marker compare
\* as "a first"
RecommendationCompareNoTie(a, b) ==
    IF Includes(a, CRITICAL) THEN -1
    ELSE IF Includes(b, CRITICAL) THEN 1
    ELSE IF Includes(a, DELAYING) THEN -1
    ELSE IF Includes(b, DELAYING) THEN 1
    ELSE -1

\* the comparator given to recommendations.sort
RecommendationCompare(a, b) ==
    IF Includes(a, CRITICAL) THEN -1
    ELSE IF Includes(b, CRITICAL) THEN 1
    ELSE IF Includes(a, DELAYING) THEN -1
    ELSE IF Includes(b, DELAYING) THEN 1
    ELSE 0

WEIGHTS == [solar |-> 40, seasonal |-> 35, geographic |-> 15, environmental |-> 10]

\* the solar sub-score losing 10 points per year of lifespan impact, not 15
SolarScoreTenPerYear(lifespanImpact) == Max(0, 100 * Scale - (Abs(lifespanImpact) * 10 * Scale) \div 10)

\* the category sub-scores, in fixed point
SolarScore(lifespanImpact) == Max(0, 100 * Scale - (Abs(lifespanImpact) * 15 * Scale) \div 10)
GeographicScore(distanceFromEquator) == Max(0, (100 - distanceFromEquator) * Scale)
EnvironmentalScore == 75 * Scale

\* the weighted sum of the sub-scores, in units of 1/(100*Scale)
WeightedScore(solarScore, seasonalScore, geographicScore, environmentalScore) ==
    solarScore * WEIGHTS.solar
    + seasonalScore * Scale * WEIGHTS.seasonal
    + geographicScore * WEIGHTS.geographic
    + environmentalScore * WEIGHTS.environmental

\* the overall score truncated (Math.floor) instead of rounded
OverallScoreTruncated(solarScore, seasonalScore, geographicScore, environmentalScore, halfDown) ==
    FloorDiv(WeightedScore(solarScore, seasonalScore, geographicScore, environmentalScore),
             100 * Scale)

OverallScore(solarScore, seasonalScore, geographicScore, environmentalScore, halfDown) ==
    MathRoundInexact(WeightedScore(solarScore, seasonalScore, geographicScore, environmentalScore),
                     100 * Scale, halfDown)

\* the thresholds taken strictly
ConfidenceLevelStrict(overallScore) ==
    IF overallScore > 80 THEN "HIGH"
    ELSE IF overallScore > 60 THEN "MEDIUM"
    ELSE "LOW"

ConfidenceLevel(overallScore) ==
    IF overallScore >= 80 THEN "HIGH"
    ELSE IF overallScore >= 60 THEN "MEDIUM"
    ELSE "LOW"

\* a RiskFactor
Factor(c, n, i, sv, d) ==
    [category |-> c, name |-> n, impact |-> i, severity |-> sv, description |-> d]

\* the primary solar factor with the risk branch scaled by 15, like the
\* benefit branch, instead of 12
PrimarySolarFactorFifteen(li, halfDown) ==
    IF li < -10
    THEN Factor("solar", "Solar Activity Risk", -MathRound(Abs(li) * 15, 10),
                IF li < -30 THEN "HIGH" ELSE "MEDIUM",
                "High solar activity during birth period affects development")
    ELSE IF li > 5
    THEN Factor("solar", "Solar Minimum Benefit", MathRoundInexact(li * 15, 10, halfDown), "LOW",
                "Low solar activity provides optimal conditions")
    ELSE Factor("solar", "Solar Activity Neutral", MathRoundInexact(li * 5, 10, halfDown), "LOW",
                "Moderate solar activity with minimal impact")

\* the solar factor that is always included; li is lifespanImpact in tenths
PrimarySolarFactor(li, halfDown) ==
    IF li < -10
    THEN Factor("solar", "Solar Activity Risk", -MathRound(Abs(li) * 12, 10),
                IF li < -30 THEN "HIGH" ELSE "MEDIUM",
                "High solar activity during birth period affects development")
    ELSE IF li > 5
    THEN Factor("solar", "Solar Minimum Benefit", MathRoundInexact(li * 15, 10, halfDown), "LOW",
                "Low solar activity provides optimal conditions")
    ELSE Factor("solar", "Solar Activity Neutral", MathRoundInexact(li * 5, 10, halfDown), "LOW",
                "Moderate solar activity with minimal impact")

\* the UV factor, or nothing
UVFactor(uvRadiationLevel, halfDown) ==
    LET Pushed(uvImpact) ==
            IF Abs(uvImpact) > 2
            THEN <<Factor("solar",
                          IF uvImpact > 0 THEN "UV Exposure Risk" ELSE "UV Protection Benefit",
                          IF uvImpact > 0 THEN -Abs(uvImpact) ELSE Abs(uvImpact),
                          IF Abs(uvImpact) > 15 THEN "HIGH"
                          ELSE IF Abs(uvImpact) > 8 THEN "MEDIUM" ELSE "LOW",
                          IF uvImpact > 0 THEN "Elevated UV radiation increases health risks"
                          ELSE "Lower UV exposure reduces radiation risks")>>
            ELSE <<>>
    IN  Pushed(MathRoundInexact((uvRadiationLevel - 6 * Scale) * 5, Scale, halfDown))

\* the vitamin D factor, always included
VitaminDFactor(vitaminDScore) ==
    LET Pushed(vitaminDImpact) ==
            Factor("seasonal",
                   IF vitaminDImpact > 0 THEN "Vitamin D Advantage" ELSE "Vitamin D Deficiency Risk",
                   vitaminDImpact,
                   IF Abs(vitaminDImpact) > 15 THEN "HIGH"
                   ELSE IF Abs(vitaminDImpact) > 8 THEN "MEDIUM" ELSE "LOW",
                   IF vitaminDImpact > 0 THEN "Optimal vitamin D synthesis during pregnancy"
                   ELSE "Limited vitamin D synthesis may affect development")
    IN  Pushed(MathRound((vitaminDScore - 60) * 5, 10))

\* the infection factor, or nothing
InfectionFactor(infectiousRisk) ==
    LET Pushed(infectionImpact) ==
            IF Abs(infectionImpact) > 3
            THEN <<Factor("seasonal",
                          IF infectionImpact > 0 THEN "Infection Season Risk" ELSE "Low Infection Period",
                          IF infectionImpact > 0 THEN -Abs(infectionImpact) ELSE Abs(infectionImpact),
                          IF Abs(infectionImpact) > 18 THEN "HIGH"
                          ELSE IF Abs(infectionImpact) > 10 THEN "MEDIUM" ELSE "LOW",
                          IF infectionImpact > 0 THEN "Higher infection rates during birth period"
                          ELSE "Lower infection risk provides health benefits")>>
            ELSE <<>>
    IN  Pushed(MathRound((infectiousRisk - 50) * 6, 10))

\* the school-age factor, or nothing
SchoolFactor(relativeAgeAdvantage) ==
    IF relativeAgeAdvantage > 60
    THEN <<Factor("seasonal", "School Age Advantage",
                  MathRound((relativeAgeAdvantage - 50) * 8, 10), "LOW",
                  "Favorable birth timing for academic year")>>
    ELSE <<>>

\* the latitude factor measured from 40 degrees instead of 35
LatitudeFactorFromForty(latitude) ==
    LET Pushed(latitudeImpact) ==
            Factor("geographic",
                   IF latitudeImpact > 0 THEN "Favorable Latitude" ELSE "Latitude Challenge",
                   latitudeImpact,
                   IF Abs(latitudeImpact) > 15 THEN "MEDIUM" ELSE "LOW",
                   IF latitudeImpact > 0 THEN "Optimal latitude for balanced seasonal exposure"
                   ELSE "Extreme latitude affects seasonal patterns")
    IN  Pushed(MathRound((40 - Abs(latitude)) * 6, 10))

\* the geographic factor, always included
LatitudeFactor(latitude) ==
    LET Pushed(latitudeImpact) ==
            Factor("geographic",
                   IF latitudeImpact > 0 THEN "Favorable Latitude" ELSE "Latitude Challenge",
                   latitudeImpact,
                   IF Abs(latitudeImpact) > 15 THEN "MEDIUM" ELSE "LOW",
                   IF latitudeImpact > 0 THEN "Optimal latitude for balanced seasonal exposure"
                   ELSE "Extreme latitude affects seasonal patterns")
    IN  Pushed(MathRound((35 - Abs(latitude)) * 6, 10))

\* the environmental factor of the calendar season; month is 0..11
EnvironmentalFactor(month) ==
    LET season == IF month >= 3 /\ month <= 5 THEN "spring"
                  ELSE IF month >= 6 /\ month <= 8 THEN "summer"
                  ELSE IF month >= 9 /\ month <= 11 THEN "fall" ELSE "winter"
        envImpact == CASE season = "spring" -> -12
                       [] season = "summer" -> 8
                       [] season = "fall" -> 5
                       [] season = "winter" -> -18
        envName == CASE season = "spring" -> "Spring Allergen Exposure"
                     [] season = "summer" -> "Summer Air Quality"
                     [] season = "fall" -> "Fall Transition Period"
                     [] season = "winter" -> "Winter Environmental Risk"
        envDesc == CASE season = "spring" -> "High pollen counts during birth period"
                     [] season = "summer" -> "Generally better air quality and outdoor conditions"
                     [] season = "fall" -> "Moderate environmental conditions"
                     [] season = "winter" -> "Indoor pollution and respiratory illness risk"
    IN  Factor("environmental", envName, envImpact,
               IF Abs(envImpact) > 15 THEN "MEDIUM" ELSE "LOW", envDesc)

\* the risk factors with the geographic factor pushed after the environmental one
RiskFactorsGeographicLast(location, targetDate, solarActivity, seasonalRisk, halfDown) ==
    <<PrimarySolarFactor(solarActivity.lifespanImpact, halfDown)>>
    \o UVFactor(solarActivity.uvRadiationLevel, halfDown)
    \o <<VitaminDFactor(seasonalRisk.vitaminDScore)>>
    \o InfectionFactor(seasonalRisk.infectiousRisk)
    \o SchoolFactor(seasonalRisk.relativeAgeAdvantage)
    \o <<EnvironmentalFactor(targetDate.month)>>
    \o <<LatitudeFactor(location.latitude)>>

\* the risk factors, in the order they are pushed
RiskFactors(location, targetDate, solarActivity, seasonalRisk, halfDown) ==
    <<PrimarySolarFactor(solarActivity.lifespanImpact, halfDown)>>
    \o UVFactor(solarActivity.uvRadiationLevel, halfDown)
    \o <<VitaminDFactor(seasonalRisk.vitaminDScore)>>
    \o InfectionFactor(seasonalRisk.infectiousRisk)
    \o SchoolFactor(seasonalRisk.relativeAgeAdvantage)
    \o <<LatitudeFactor(location.latitude)>>
    \o <<EnvironmentalFactor(targetDate.month)>>

\* the three closing summary strings
OPTIMAL_TIMING ==
    Str(<<"Optimal timing confirmed - proceed with standard prenatal care and preparation">>, 0)
GOOD_TIMING ==
    Str(<<"Good timing with manageable risks - focus on addressing specific risk factors identified above">>, 0)
ALTERNATIVE_TIMING ==
    Str(<<"Consider alternative timing or implement comprehensive risk mitigation strategies">>, 0)

\* the closing summary with strict comparisons: a score of exactly 80 or 60
\* falls into the lower tier
ClosingSummaryStrict(overallScore) ==
    IF overallScore > 80 THEN OPTIMAL_TIMING
    ELSE IF overallScore > 60 THEN GOOD_TIMING
    ELSE ALTERNATIVE_TIMING

\* the general best-practice string pushed last, chosen by the score
ClosingSummary(overallScore) ==
    IF overallScore >= 80 THEN OPTIMAL_TIMING
    ELSE IF overallScore >= 60 THEN GOOD_TIMING
    ELSE ALTERNATIVE_TIMING

\* the recommendation cascade, in the order the strings are pushed
RecommendationCascade(location, targetDate, solarActivity, seasonalRisk, mentalHealthMultiplier, overallScore) ==
    LET li == solarActivity.lifespanImpact
        monthName == targetDate.month + 1
        distanceFromEquator == Abs(location.latitude)
        solar ==
            IF li < -50
            THEN <<Str(<<CRITICAL, ": ", DELAYING,
                         " conception by 12-18 months - peak solar maximum detected with significant lifespan impact (-{} years)">>,
                       Abs(li))>>
            ELSE IF li < -30
            THEN <<Str(<<DELAYING,
                         " conception by 6-12 months to avoid peak solar activity (current impact: {} years)">>,
                       li)>>
            ELSE IF li > 20
            THEN <<Str(<<"Excellent solar conditions detected - optimal timing from a solar cycle perspective (+{} years lifespan benefit)">>,
                       li)>>
            ELSE <<>>
        vitaminD ==
            IF seasonalRisk.vitaminDScore < 30
            THEN <<Str(<<CRITICAL,
                         ": Start high-dose vitamin D supplementation immediately (2000-4000 IU daily) - severe deficiency risk in {}">>,
                       monthName),
                   Str(<<"Schedule vitamin D blood test before conception and monitor levels throughout pregnancy">>, 0)>>
            ELSE IF seasonalRisk.vitaminDScore < 50
            THEN <<Str(<<"Begin vitamin D supplementation (1000-2000 IU daily) at least 3 months before conception">>, 0),
                   Str(<<"Consider light therapy during pregnancy months if born in {}">>, monthName)>>
            ELSE IF seasonalRisk.vitaminDScore > 80
            THEN <<Str(<<"Excellent vitamin D synthesis expected - maintain outdoor activities for natural production">>, 0)>>
            ELSE <<>>
        infection ==
            IF seasonalRisk.infectiousRisk > 80
            THEN <<Str(<<"[warning-sign] High infection risk period - implement strict hygiene protocols during first trimester">>, 0),
                   Str(<<"Consider flu vaccination before conception and pertussis vaccine during pregnancy">>, 0),
                   Str(<<"Limit exposure to crowded spaces during peak {} infection season">>, monthName)>>
            ELSE IF seasonalRisk.infectiousRisk > 60
            THEN <<Str(<<"Moderate infection risk - maintain good hygiene practices and consider immune support supplements">>, 0)>>
            ELSE <<>>
        education ==
            IF seasonalRisk.relativeAgeAdvantage > 70
            THEN <<Str(<<"Excellent school entry timing - child will be among oldest in class with documented academic advantages">>, 0),
                   Str(<<"Consider early enrichment programs to maximize age-related developmental advantages">>, 0)>>
            ELSE IF seasonalRisk.relativeAgeAdvantage < 30
            THEN <<Str(<<"Child will be among youngest in class - consider delayed kindergarten entry or redshirting">>, 0),
                   Str(<<"Focus on early childhood development programs to offset relative age disadvantage">>, 0)>>
            ELSE <<>>
        geographic ==
            IF distanceFromEquator > 50
            THEN <<Str(<<"Northern latitude detected - ensure adequate indoor air quality and humidity control during winter months">>, 0),
                   Str(<<"Consider seasonal affective disorder (SAD) prevention with light therapy during pregnancy">>, 0)>>
            ELSE <<>>
        mentalHealth ==
            IF mentalHealthMultiplier > 13
            THEN <<Str(<<"Elevated mental health risks detected - establish care team including mental health specialist">>, 0),
                   Str(<<"Create postpartum support plan with emphasis on {} seasonal factors">>, monthName)>>
            ELSE <<>>
        Strs(strings) == [i \in DOMAIN strings |-> Str(<<strings[i]>>, 0)]
        seasonalSpecific == Strs(getSeasonalRecommendations(targetDate, location))
    IN  solar \o vitaminD \o infection \o education \o geographic \o mentalHealth
        \o seasonalSpecific \o <<ClosingSummary(overallScore)>>

\* deduplicate, then sort by priority
SortedRecommendations(recommendations, engine) ==
    LET Sorted(uniqueRecommendations) ==
            ArraySort(uniqueRecommendations, engine,
                      [a, b \in {uniqueRecommendations[i] : i \in DOMAIN uniqueRecommendations}
                          |-> RecommendationCompare(a, b)])
    IN  Sorted(SetSpread(recommendations))

\* OptimalTimingResult (threw = "no"), or the exception thrown on the way.
\* draws are the values Math.random() returns during the call; engine is the
\* sort algorithm of the JavaScript engine the call runs on.
OptimalTimingOf(location, targetDate, solarActivity, draws, engine) ==
    LET distanceFromEquator == Abs(location.latitude)
        Result(seasonalRisk, mentalHealthMultiplier, overallScore) ==
            [threw |-> "no",
             birthDate |-> targetDate,
             overallScore |-> overallScore,
             lifeExpectancyDelta |-> solarActivity.lifespanImpact,
             confidenceLevel |-> ConfidenceLevel(overallScore),
             riskFactors |-> RiskFactors(location, targetDate, solarActivity, seasonalRisk,
                                         draws.halfDown),
             recommendations |->
                 SortedRecommendations(
                     RecommendationCascade(location, targetDate, solarActivity, seasonalRisk,
                                           mentalHealthMultiplier, overallScore),
                     engine),
             solarData |-> [sunspotNumber |-> solarActivity.sunspotNumber,
                            solarRisk |-> getSolarRiskLevel(solarActivity.sunspotNumber),
                            lifespanImpact |-> solarActivity.lifespanImpact,
                            mentalHealthMultiplier |-> mentalHealthMultiplier,
                            uvRadiationLevel |-> solarActivity.uvRadiationLevel],
             seasonalData |-> [vitaminDScore |-> seasonalRisk.vitaminDScore,
                               infectiousRisk |-> seasonalRisk.infectiousRisk,
                               relativeAgeAdvantage |-> seasonalRisk.relativeAgeAdvantage,
                               overallSeasonalScore |-> seasonalRisk.overallSeasonalScore]]
        Scored(seasonalRisk) ==
            IF seasonalRisk.threw # "no" THEN [threw |-> seasonalRisk.threw]
            ELSE Result(seasonalRisk,
                        calculateMentalHealthRisk(solarActivity.sunspotNumber),
                        OverallScore(SolarScore(solarActivity.lifespanImpact),
                                     seasonalRisk.overallSeasonalScore,
                                     GeographicScore(distanceFromEquator),
                                     EnvironmentalScore,
                                     draws.halfDown))
    IN  Scored(calculateSeasonalRisk(targetDate, location))

\* calculateOptimalTiming(location, targetDate)
calculateOptimalTiming(location, targetDate, draws, engine) ==
    OptimalTimingOf(location, targetDate, calculateSolarActivityData(targetDate, draws),
                    draws, engine)

(* ----------------------------- date-fns -------------------------------- *)
IsLeapYear(year) == (year % 4 = 0 /\ year % 100 # 0) \/ year % 400 = 0

\* month is 0..11
DaysInMonth(year, month) ==
    IF month = 1 THEN (IF IsLeapYear(year) THEN 29 ELSE 28)
    ELSE IF month \in {3, 5, 8, 10} THEN 30
    ELSE 31

\* addMonths: the same day of the month amount months later, or the last day
\* of that month when it is shorter; the time of day is kept
addMonths(date, amount) ==
    LET months == date.year * 12 + date.month + amount
        year == FloorDiv(months, 12)
        month == months - 12 * year
    IN  [date EXCEPT !.year = year, !.month = month,
                     !.day = Min(date.day, DaysInMonth(year, month))]

\* format(date, 'yyyy-MM-dd'): the calendar day, without the time of day
FormatDay(date) == <<date.year, date.month + 1, date.day>>

(* ------------------------- range aggregation -------------------------- *)
\* the comparator with its operands exchanged: ascending overallScore
ScoreCompareAscending(a, b) == a.overallScore - b.overallScore

\* the comparator that also orders equal scores: the later month first
ScoreCompareLatestFirst(a, b) ==
    IF b.overallScore = a.overallScore
    THEN (12 * b.birthDate.year + b.birthDate.month) - (12 * a.birthDate.year + a.birthDate.month)
    ELSE b.overallScore - a.overallScore

\* the comparator of analyses.sort: descending overallScore
ScoreCompare(a, b) == b.overallScore - a.overallScore

RECURSIVE SumScores(_)
SumScores(analyses) ==
    IF analyses = <<>> THEN 0
    ELSE analyses[1].overallScore + SumScores(Tail(analyses))

\* Array.prototype.filter
RECURSIVE FilterYear(_, _)
FilterYear(analyses, year) ==
    IF analyses = <<>> THEN <<>>
    ELSE (IF getYear(analyses[1].birthDate) = year THEN <<analyses[1]>> ELSE <<>>)
         \o FilterYear(Tail(analyses), year)

\* The averages are IEEE-754 doubles: currentAvg = fl(currentSum / nc),
\* nextAvg = fl(nextSum / nn), and the tests compare nextAvg with
\* fl(currentAvg + 5) and fl(currentAvg - 5).  When the exact averages differ by
\* something other than exactly 5, the nearest other value is at least
\* 1 / (nc * nn) away and the doubles compare as the fractions do.  When they
\* differ by exactly 5 both sides have the same fraction r / nc after the
\* binary point and differ only in how many of its bits they keep; the
\* operators below decide that case bit by bit.

\* floor(log2(n)) for n >= 1: the exponent of a double in [n, n + 1)
RECURSIVE Log2Floor(_)
Log2Floor(n) == IF n < 2 THEN 0 ELSE 1 + Log2Floor(n \div 2)

\* what is left of the fraction r / nc after its first n bits: (r * 2^n) mod nc
RECURSIVE Remainder(_, _, _)
Remainder(r, nc, n) == IF n = 0 THEN r ELSE Remainder((2 * r) % nc, nc, n - 1)

\* bit i (1 is the first after the binary point) of the fraction r / nc
FractionBit(r, nc, i) == (2 * Remainder(r, nc, i - 1)) \div nc

\* the zero bits before the first one bit of the fraction r / nc, r > 0
RECURSIVE LeadingZeros(_, _)
LeadingZeros(r, nc) == IF 2 * r >= nc THEN 0 ELSE 1 + LeadingZeros(2 * r, nc)

\* the bits after the binary point that the 53-bit significand of a double
\* keeps for the value n + r / nc
FractionBitsKept(n, r, nc) ==
    IF n >= 1 THEN 52 - Log2Floor(n) ELSE 53 + LeadingZeros(r, nc)

\* the bits from + 1 .. to of the fraction r / nc, read as a binary number
RECURSIVE BitsValue(_, _, _, _)
BitsValue(r, nc, from, to) ==
    IF to <= from THEN 0
    ELSE 2 * BitsValue(r, nc, from, to - 1) + FractionBit(r, nc, to)

\* 2^n
RECURSIVE PowerOfTwo(_)
PowerOfTwo(n) == IF n = 0 THEN 1 ELSE 2 * PowerOfTwo(n - 1)

\* round-to-nearest-even of the fraction r / nc to p bits rounds upwards
RoundsUp(r, nc, p) ==
    /\ FractionBit(r, nc, p + 1) = 1
    /\ Remainder(r, nc, p + 1) # 0 \/ FractionBit(r, nc, p) = 1

\* fl(i + 5 + r/nc) > fl(fl(i + r/nc) + 5): the quotient rounded once to the
\* bits kept at i + 5 lies above the quotient rounded first to the bits kept
\* at i and then, by the addition, to the bits kept at i + 5
ImprovingAtTie(i, r, nc) ==
    LET Decide(pI, pJ) ==
            LET Compare(m0, half, lsb) ==
                    LET single == \/ m0 > half
                                  \/ /\ m0 = half
                                     /\ \/ FractionBit(r, nc, pI + 1) = 1
                                        \/ Remainder(r, nc, pI + 1) # 0
                                        \/ lsb = 1
                        m == m0 + (IF RoundsUp(r, nc, pI) THEN 1 ELSE 0)
                        double == m > half \/ (m = half /\ lsb = 1)
                    IN  single /\ ~double
            IN  /\ pI > pJ
                /\ Compare(BitsValue(r, nc, pJ, pI), PowerOfTwo(pI - pJ - 1),
                           FractionBit(r, nc, pJ))
    IN  /\ r # 0
        /\ Decide(FractionBitsKept(i, r, nc), FractionBitsKept(i + 5, r, nc))

\* fl(i - 5 + r/nc) < fl(fl(i + r/nc) - 5): the subtraction is exact, so the
\* right side is the quotient rounded to the bits kept at i, and the left side
\* is the quotient rounded to the (more) bits kept at i - 5
DecliningAtTie(i, r, nc) ==
    LET Decide(pI, pJ) ==
            /\ pJ > pI
            /\ RoundsUp(r, nc, pI)
            /\ ~(/\ BitsValue(r, nc, pI, pJ) = PowerOfTwo(pJ - pI) - 1
                 /\ RoundsUp(r, nc, pJ))
    IN  /\ r # 0
        /\ Decide(FractionBitsKept(i, r, nc), FractionBitsKept(i - 5, r, nc))

\* nextAvg > currentAvg + 5 and nextAvg < currentAvg - 5 for the doubles
\* currentAvg = currentSum / nc and nextAvg = nextSum / nn
TrendOfSums(currentSum, nc, nextSum, nn) ==
    LET Decide(difference, five) ==
            IF \/ difference > five
               \/ difference = five /\ ImprovingAtTie(currentSum \div nc, currentSum % nc, nc)
            THEN "improving"
            ELSE IF \/ difference < -five
                    \/ difference = -five /\ DecliningAtTie(currentSum \div nc, currentSum % nc, nc)
            THEN "declining"
            ELSE "stable"
    IN  Decide(nextSum * nc - currentSum * nn, 5 * nn * nc)

\* the yearly trend of the evaluated months
YearlyTrend(analyses, centerDate) ==
    LET Trend(currentYearAnalyses, nextYearAnalyses) ==
            IF Len(nextYearAnalyses) > 0 /\ Len(currentYearAnalyses) > 0
            THEN TrendOfSums(SumScores(currentYearAnalyses), Len(currentYearAnalyses),
                             SumScores(nextYearAnalyses), Len(nextYearAnalyses))
            ELSE "stable"
    IN  Trend(FilterYear(analyses, getYear(centerDate)),
              FilterYear(analyses, getYear(centerDate) + 1))

\* Math.ceil(analyses.length * 0.25)
TopQuartileCount(length) == MathCeil(length * 25, 100)

\* the TimingAnalysis built from the monthly analyses and the extra evaluation
\* of centerDate (currentTiming); with no analyses bestAnalysis is undefined
\* and reading bestAnalysis.birthDate throws
TimingAnalysisOf(analyses, centerDate, currentTiming, engine) ==
    LET Ranked(sortedAnalyses) ==
            [threw |-> "no",
             optimalWindows |-> SubSeq(sortedAnalyses, 1, TopQuartileCount(Len(analyses))),
             currentTiming |-> currentTiming,
             bestOverallMonth |-> sortedAnalyses[1].birthDate.month + 1,
             worstOverallMonth |-> sortedAnalyses[Len(sortedAnalyses)].birthDate.month + 1,
             yearlyTrend |-> YearlyTrend(analyses, centerDate)]
    IN  IF analyses = <<>> THEN [threw |-> "TypeError"]
        ELSE Ranked(ArraySort(analyses, engine,
                              [a, b \in {analyses[i] : i \in DOMAIN analyses} |-> ScoreCompare(a, b)]))

(* ------------------------------ state --------------------------------- *)
VARIABLES
    runtime,         \* the JavaScript engine the program runs on: its sort algorithm
    location,        \* the LocationData the engine is called with
    targetDate,      \* the Date the engine is called with (centerDate of a range)
    result,          \* what the latest calculateOptimalTiming call returned
    previous,        \* what the call before it returned
    range,           \* the running analyzeTimingRange call: its position and locals
    timing,          \* what analyzeTimingRange returned
    now,             \* the clock: what new Date() returns
    solarDataCache,  \* the module-level Map of fetchNOAASolarData
    fetched,         \* the latest fetchNOAASolarData call: its key and what it returned
    firstProduced,   \* history: for every key, the first sample returned for it
    solar,           \* what the solar model returned for targetDate: cycle and data
    geocodingCache,  \* the module-level Map of geocodeAddress
    geocodes,        \* the geocodeAddress calls, in the order they start
    stored,          \* history: the results put into geocodingCache, in order
    report,          \* the running generateOptimalityReport call and what it returned
    dashboard,       \* the state of BirthTimingDashboard (its useState values)
    timeouts,        \* the pending timers of the debounce effect and their age in ms
    selectedAge,     \* the time in ms since selectedDate last changed, up to DebounceMs
    performing,      \* the performAnalysis call that is awaiting the engine
    locating,        \* the number of getCurrentLocation calls in flight
    settled,         \* history: the selectedDate values that stayed unchanged for DebounceMs
    engineRuns,      \* history: the dates performAnalysis was started for
    changes,         \* the number of changes of selectedDate so far
    refreshes,       \* the number of location refreshes the user asked for
    created          \* the number of the latest event that created Date objects

engineVars == <<runtime, location, targetDate, result, previous>>
rangeVars == <<range, timing>>
cacheVars == <<now, solarDataCache, fetched, firstProduced>>
geoVars == <<geocodingCache, geocodes, stored>>
dashVars == <<dashboard, timeouts, selectedAge, performing, locating, settled, engineRuns,
              changes, refreshes, created>>
restVars == <<geoVars, report, dashVars>>
nonDashVars == <<engineVars, rangeVars, cacheVars, solar, geoVars, report>>
nonGeoVars == <<engineVars, rangeVars, cacheVars, solar, report, dashVars>>
vars == <<runtime, location, targetDate, result, previous, range, timing,
          now, solarDataCache, fetched, firstProduced, solar, restVars>>

\* a lattice of latitudes, with the latitudes at which the geographic factor
\* changes name (35 degrees either side) and the polar example of 75 degrees
Latitudes == {l \in -90 .. 90 : l % LatStep = 0} \cup {-35, 35, 75}
Countries == {"undefined", "Australia", "Germany", "Unknown"}
Locations == [latitude : Latitudes, country : Countries]
Dates == [year : (FirstYear .. LastYear) \cup {QuietYear}, month : 0 .. 11, day : {15}, hour : {0}]

\* no call has returned yet
NoResult == [threw |-> "not called"]

\* no analyzeTimingRange call is running
Idle == [pc |-> "idle"]

\* what one call can draw: the sunspot noise and the side of exact halves; the
\* engine reads neither solarFluxIndex nor geomagneticIndex, so their draws
\* are not enumerated here
EngineDraws ==
    [sunspot : RandomDraws, flux : {0}, geomagnetic : {0}, halfDown : BOOLEAN]

\* the state of the modules around the engine when they are loaded
GeoInit ==
    /\ geocodingCache = <<>>
    /\ geocodes = [c \in 1 .. MaxCalls |-> [pc |-> "idle"]]
    /\ stored = <<>>

\* the day the dashboard is opened: what new Date() returns on mount
Today == [year |-> QuietYear, month |-> 0, day |-> 15, hour |-> 0]

\* a Date object: its time and the event that created it (two objects of one
\* event differ in their time)
DateObject(time, id) == [time |-> time, id |-> id]

\* BirthTimingDashboard after it is mounted: the two new Date() of useState, the
\* timer of the debounce effect set, handleLocationRefresh awaiting
\* getCurrentLocation, and the analysis effect returned at once for lack of a
\* location
DashInit ==
    /\ dashboard = [location |-> Undefined, locationError |-> Undefined,
                    locationLoading |-> TRUE,
                    selectedDate |-> DateObject(Today, 0),
                    debouncedDate |-> DateObject(Today, 1),
                    currentAnalysis |-> Undefined, monthlyScores |-> <<>>,
                    analysisLoading |-> FALSE, isSliding |-> FALSE]
    /\ timeouts = {[date |-> DateObject(Today, 0), age |-> 0]}
    /\ selectedAge = 0
    /\ performing = Idle
    /\ locating = 1
    /\ settled = {}
    /\ engineRuns = {}
    /\ changes = 0
    /\ refreshes = 0
    /\ created = 1

RestInit == GeoInit /\ report = Idle /\ DashInit

Init ==
    /\ runtime \in SortEngines
    /\ location \in Locations
    /\ targetDate \in Dates
    /\ result = NoResult
    /\ previous = NoResult
    /\ range = Idle
    /\ timing = NoResult
    /\ now = [year |-> FirstYear, month |-> 0, day |-> 15, hour |-> 0]
    /\ solarDataCache = <<>>
    /\ fetched = NoResult
    /\ firstProduced = <<>>
    /\ solar = NoResult
    /\ RestInit

\* the first call calculateOptimalTiming(location, targetDate)
CalculateOptimalTiming ==
    /\ result = NoResult
    /\ \E draws \in EngineDraws :
          result' = calculateOptimalTiming(location, targetDate, draws, runtime)
    /\ UNCHANGED <<runtime, location, targetDate, previous, rangeVars, cacheVars, solar, restVars>>

\* the same call once more, with the same location and date
CalculateAgain ==
    /\ result # NoResult
    /\ previous = NoResult
    /\ \E draws \in EngineDraws :
          result' = calculateOptimalTiming(location, targetDate, draws, runtime)
    /\ previous' = result
    /\ UNCHANGED <<runtime, location, targetDate, rangeVars, cacheVars, solar, restVars>>

Next == CalculateOptimalTiming

Spec == Init /\ [][Next]_vars

\* the engine call for a date whose sunspot number is given: what
\* calculateOptimalTiming does once calculateSunspotNumber has returned
CalculateForSunspots ==
    /\ result = NoResult
    /\ \E sunspotNumber \in 0 .. MaxSunspots : \E halfDown \in BOOLEAN :
          LET draws == [sunspot |-> 0, flux |-> 0, geomagnetic |-> 0, halfDown |-> halfDown]
          IN  result' = OptimalTimingOf(location, targetDate,
                                        SolarActivityDataOf(targetDate, sunspotNumber, draws),
                                        draws, runtime)
    /\ UNCHANGED <<runtime, location, targetDate, previous, rangeVars, cacheVars, solar, restVars>>

\* every month of one year, at one place
InitSunspots ==
    /\ Init
    /\ runtime = "v8"
    /\ location = [latitude |-> 45, country |-> "undefined"]
    /\ targetDate.year = FirstYear

NextSunspots == CalculateForSunspots

SpecSunspots == InitSunspots /\ [][NextSunspots]_vars

\* two calls with the same arguments, for the locations of one country
InitTwice ==
    /\ Init
    /\ location.country = "Australia"

NextTwice == CalculateOptimalTiming \/ CalculateAgain

SpecTwice == InitTwice /\ [][NextTwice]_vars

(* ------------------------ analyzeTimingRange -------------------------- *)
\* the draws enumerated for the evaluations of a range: the lowest and the
\* highest sunspot noise
RangeDraws == {d \in EngineDraws : d.sunspot \in {0, 2 * NoiseSteps - 1} /\ ~d.halfDown}

\* analyzeTimingRange(location, targetDate, rangeMonths) is called: the loop
\* starts at i = -rangeMonths.  engineCalls counts the calls of
\* calculateOptimalTiming this call makes.
AnalyzeStart ==
    /\ range = Idle
    /\ timing = NoResult
    /\ \E rangeMonths \in 0 .. MaxRange :
          range' = [pc |-> "loop", rangeMonths |-> rangeMonths, i |-> -rangeMonths,
                    analyses |-> <<>>, engineCalls |-> 0]
    /\ UNCHANGED <<engineVars, timing, cacheVars, solar, restVars>>

\* the loop condition with < for <=
LoopContinuesStrictly(i, rangeMonths) == i < rangeMonths

\* the loop condition of analyzeTimingRange
LoopContinues(i, rangeMonths) == i <= rangeMonths

\* one iteration of the loop: evaluate the month at offset i, the engine
\* drawing from drawSet
AnalyzeMonthDrawing(drawSet) ==
    /\ range.pc = "loop"
    /\ LoopContinues(range.i, range.rangeMonths)
    /\ \E draws \in drawSet :
          LET testDate == addMonths(targetDate, range.i)
              analysis == calculateOptimalTiming(location, testDate, draws, runtime)
          IN  IF analysis.threw = "no"
              THEN /\ range' = [range EXCEPT !.i = @ + 1,
                                             !.analyses = Append(@, analysis),
                                             !.engineCalls = @ + 1]
                   /\ timing' = timing
              ELSE /\ range' = [range EXCEPT !.pc = "rejected", !.engineCalls = @ + 1]
                   /\ timing' = [threw |-> analysis.threw]
    /\ UNCHANGED <<engineVars, cacheVars, solar>>

AnalyzeMonth == AnalyzeMonthDrawing(RangeDraws) /\ UNCHANGED restVars

\* after the loop: rank the months, evaluate centerDate once more for
\* currentTiming, and return
AnalyzeFinish ==
    /\ range.pc = "loop"
    /\ ~LoopContinues(range.i, range.rangeMonths)
    /\ \E draws \in RangeDraws :
          LET currentTiming == calculateOptimalTiming(location, targetDate, draws, runtime)
              Returns(analysis) ==
                  /\ range' = [range EXCEPT !.pc = IF analysis.threw = "no" THEN "done"
                                                   ELSE "rejected",
                                            !.engineCalls = @ + 1]
                  /\ timing' = analysis
          IN  IF currentTiming.threw = "no"
              THEN Returns(TimingAnalysisOf(range.analyses, targetDate, currentTiming, runtime))
              ELSE Returns([threw |-> currentTiming.threw])
    /\ UNCHANGED <<engineVars, cacheVars, solar, restVars>>

\* ranges around the first, a middle and the last month of the last year
InitRange ==
    /\ Init
    /\ location.country = "Australia"
    /\ location.latitude % (3 * LatStep) = 0
    /\ targetDate.year = LastYear
    /\ targetDate.month \in {0, 6, 11}

NextRange == AnalyzeStart \/ AnalyzeMonth \/ AnalyzeFinish

SpecRange == InitRange /\ [][NextRange]_vars

\* analyzeTimingRange(location, targetDate, LongRange) is called: a window long
\* enough to hold several months of two calendar years
AnalyzeStartLong ==
    /\ range = Idle
    /\ timing = NoResult
    /\ \E rangeMonths \in {0, LongRange} :
          range' = [pc |-> "loop", rangeMonths |-> rangeMonths, i |-> -rangeMonths,
                    analyses |-> <<>>, engineCalls |-> 0]
    /\ UNCHANGED <<engineVars, timing, cacheVars, solar, restVars>>

\* ranges around the November of the last year, whose later months fall into
\* the next calendar year
InitTrend ==
    /\ Init
    /\ location.country = "Australia"
    /\ location.latitude \in {30, 35}
    /\ targetDate.year = LastYear
    /\ targetDate.month = 10

NextTrend == AnalyzeStartLong \/ AnalyzeMonth \/ AnalyzeFinish

SpecTrend == InitTrend /\ [][NextTrend]_vars

(* ---------------------- generateOptimalityReport ---------------------- *)
\* the range generateOptimalityReport asks analyzeTimingRange for
ReportRange == 12

\* the months around selectedDate whose evaluations draw freely; the months
\* further away draw the quiet sample
ReportDraws(i) ==
    IF Abs(i) <= VariedMonths THEN RangeDraws
    ELSE {d \in RangeDraws : d.sunspot = 0}

\* the alternatives without the filter
AlternativesUnfiltered(optimalWindows, selectedDate) ==
    SubSeq(optimalWindows, 1, Min(3, Len(optimalWindows)))

\* timingAnalysis.optimalWindows.filter(w => w.birthDate.getTime() !==
\* selectedDate.getTime()).slice(0, 3)
Alternatives(optimalWindows, selectedDate) ==
    LET Slice(filtered) == SubSeq(filtered, 1, Min(3, Len(filtered)))
        Other(w) == w.birthDate # selectedDate
    IN  Slice(SelectSeq(optimalWindows, Other))

\* the report: the summary is the template filled with the values it
\* interpolates, scientificBasis the five citations
ReportOf(loc, selectedDate, analysis, timingAnalysis) ==
    [threw |-> "no",
     summary |-> [month |-> <<selectedDate.month + 1, selectedDate.year>>,
                  country |-> loc.country,
                  overallScore |-> analysis.overallScore,
                  confidenceLevel |-> analysis.confidenceLevel,
                  sign |-> IF analysis.lifeExpectancyDelta >= 0 THEN "+" ELSE "",
                  lifeExpectancyDelta |-> analysis.lifeExpectancyDelta,
                  highRiskFactors |-> Cardinality({k \in DOMAIN analysis.riskFactors :
                                          analysis.riskFactors[k].severity = "HIGH"})],
     analysis |-> analysis,
     alternatives |-> Alternatives(timingAnalysis.optimalWindows, selectedDate),
     scientificBasis |-> <<"Lowell & Davis (2008)", "Disanto et al. (2012)",
                           "Haggarty et al. (2004)", "Bedard & Dhuey (2006)",
                           "Jablonski & Chaplin (2010)">>]

\* generateOptimalityReport(location, targetDate) is called: the engine
\* evaluates the selected date, then analyzeTimingRange is called
ReportStart ==
    /\ report = Idle
    /\ range = Idle
    /\ \E analysis \in {calculateOptimalTiming(location, targetDate, draws, runtime) :
                             draws \in RangeDraws} :
          IF analysis.threw = "no"
          THEN /\ report' = [pc |-> "range", analysis |-> analysis]
               /\ range' = [pc |-> "loop", rangeMonths |-> ReportRange, i |-> -ReportRange,
                            analyses |-> <<>>, engineCalls |-> 0]
          ELSE /\ report' = [pc |-> "rejected", threw |-> analysis.threw]
               /\ range' = range
    /\ UNCHANGED <<engineVars, timing, cacheVars, solar, geoVars, dashVars>>

\* one iteration of the loop of the report's analyzeTimingRange
ReportMonth ==
    /\ report.pc = "range"
    /\ AnalyzeMonthDrawing(ReportDraws(range.i))
    /\ UNCHANGED restVars

\* analyzeTimingRange has settled: the report is built and returned, or the
\* rejection is passed on
ReportFinish ==
    /\ report.pc = "range"
    /\ range.pc \in {"done", "rejected"}
    /\ report' = IF range.pc = "done"
                 THEN [pc |-> "done", analysis |-> report.analysis,
                       value |-> ReportOf(location, targetDate, report.analysis, timing)]
                 ELSE [pc |-> "rejected", threw |-> timing.threw]
    /\ UNCHANGED <<engineVars, rangeVars, cacheVars, solar, geoVars, dashVars>>

\* reports for a month of an active and of a quiet year, at the equator and at
\* a northern and a southern latitude
InitReport ==
    /\ Init
    /\ runtime = "v8"
    /\ location.country = "Germany"
    /\ location.latitude \in {-30, 0, 45}
    /\ targetDate.year \in {FirstYear, QuietYear}
    /\ targetDate.month \in {6, 11}

NextReport == ReportStart \/ ReportMonth \/ AnalyzeFinish \/ ReportFinish

SpecReport == InitReport /\ [][NextReport]_vars

(* ------------------------ BirthTimingDashboard ------------------------- *)
\* the delay of the debounce timer
DebounceMs == 300

\* the months from today the time slider and the quick navigation are moved to
DashOffsets == {6}

\* what getCurrentLocation can resolve with
DashLocations ==
    {[latitude |-> 0, country |-> "Germany"], [latitude |-> -30, country |-> "Australia"]}

\* the sample the engine draws in the dashboard's evaluations
DashDraws == [sunspot |-> 0, flux |-> 0, geomagnetic |-> 0, halfDown |-> FALSE]

\* the cleanup that leaves the pending timer running
ClearTimeoutNever(pending) == pending

\* return () => clearTimeout(timeout): the cleanup of the debounce effect
ClearTimeout(pending) == {}

\* setTimeout(..., 300) in the debounce effect, whose closure holds date
SetTimeout(pending, date) == pending \cup {[date |-> date, age |-> 0]}

\* the 25 evaluations of the loop of performAnalysis around date
MonthlyAnalyses(loc, time, engine) ==
    [k \in 1 .. 25 |-> calculateOptimalTiming(loc, addMonths(time, k - 13), DashDraws, engine)]

\* analyses.map(w => ({date: w.birthDate, score: w.overallScore, ...})): the
\* dates are the objects addMonths made in this performAnalysis call
Scores(analyses, id) ==
    [k \in DOMAIN analyses |->
        [date |-> DateObject(analyses[k].birthDate, id),
         score |-> analyses[k].overallScore,
         lifeExpectancyDelta |-> analyses[k].lifeExpectancyDelta]]

\* the comparator of optimalMonths: descending score
MonthScoreCompare(a, b) == b.score - a.score

\* FullWidthTiming: scores.filter(s => s.score >= 80).sort(...).slice(0, 3),
\* the recommended optimal periods; a click on one passes its date object
OptimalDates(scores, engine) ==
    LET High(score) == score.score >= 80
        Dates3(sorted) == {sorted[k].date : k \in 1 .. Min(3, Len(sorted))}
        Sorted(high) ==
            ArraySort(high, engine,
                      [a, b \in {high[i] : i \in DOMAIN high} |-> MonthScoreCompare(a, b)])
    IN  Dates3(Sorted(SelectSeq(scores, High)))

\* React commits next; the analysis effect runs when location or debouncedDate
\* changed and a location is known: performAnalysis sets analysisLoading and
\* awaits the engine
Commit(next, changed) ==
    IF changed /\ next.location # Undefined
    THEN /\ dashboard' = [next EXCEPT !.analysisLoading = TRUE]
         /\ performing' = [pc |-> "awaiting", location |-> next.location,
                           date |-> next.debouncedDate]
         /\ engineRuns' = engineRuns \cup {next.debouncedDate}
    ELSE /\ dashboard' = next
         /\ UNCHANGED <<performing, engineRuns>>

\* handleDateChange(date): setSelectedDate(date); setIsSliding(true).  When
\* date is the object selectedDate already holds, React keeps the state and
\* the debounce effect does not run again; otherwise its cleanup clears the
\* pending timer and a new one is set.  No handler runs while performAnalysis
\* is awaiting the engine: the engine awaits nothing, so the call settles in
\* the microtasks of the task that started it.
HandleDateChange(date) ==
    /\ performing = Idle
    /\ IF date = dashboard.selectedDate
       THEN /\ dashboard' = [dashboard EXCEPT !.isSliding = TRUE]
            /\ UNCHANGED <<timeouts, selectedAge, changes>>
       ELSE /\ changes < MaxChanges
            /\ dashboard' = [dashboard EXCEPT !.selectedDate = date, !.isSliding = TRUE]
            /\ timeouts' = SetTimeout(ClearTimeout(timeouts), date)
            /\ selectedAge' = 0
            /\ changes' = changes + 1
    /\ UNCHANGED <<performing, locating, settled, engineRuns, refreshes>>
    /\ UNCHANGED nonDashVars

\* the time slider or a quick-navigation button: a new Date made by addMonths
SliderMoved ==
    /\ \E k \in DashOffsets : HandleDateChange(DateObject(addMonths(Today, k), created + 1))
    /\ created' = created + 1

\* the recommended optimal periods the user clicks: the earliest of them
ClickedPeriods(recommended) ==
    {date \in recommended : \A other \in recommended : date.time.year * 12 + date.time.month
                                                       <= other.time.year * 12 + other.time.month}

\* a click on a recommended optimal period
RecommendedPeriodClicked ==
    /\ \E date \in ClickedPeriods(OptimalDates(dashboard.monthlyScores, runtime)) :
          HandleDateChange(date)
    /\ created' = created

\* TickMs pass
TimePasses ==
    /\ performing = Idle
    /\ (selectedAge < DebounceMs \/ \E t \in timeouts : t.age < DebounceMs)
    /\ selectedAge' = Min(DebounceMs, selectedAge + TickMs)
    /\ timeouts' = {[t EXCEPT !.age = Min(DebounceMs, @ + TickMs)] : t \in timeouts}
    /\ settled' = IF selectedAge + TickMs >= DebounceMs
                  THEN settled \cup {dashboard.selectedDate}
                  ELSE settled
    /\ UNCHANGED <<dashboard, performing, locating, engineRuns, changes, refreshes, created>>
    /\ UNCHANGED nonDashVars

\* a timer of the debounce effect fires: setDebouncedDate(selectedDate) with
\* the selectedDate of its closure, setIsSliding(false)
TimerFires ==
    /\ performing = Idle
    /\ \E t \in timeouts :
          /\ t.age >= DebounceMs
          /\ timeouts' = timeouts \ {t}
          /\ Commit([dashboard EXCEPT !.debouncedDate = t.date, !.isSliding = FALSE],
                    t.date # dashboard.debouncedDate)
    /\ UNCHANGED <<selectedAge, locating, settled, changes, refreshes, created>>
    /\ UNCHANGED nonDashVars

\* the user asks for the location again: handleLocationRefresh up to its await
LocationRefresh ==
    /\ performing = Idle
    /\ refreshes < MaxRefreshes
    /\ refreshes' = refreshes + 1
    /\ locating' = locating + 1
    /\ dashboard' = [dashboard EXCEPT !.locationLoading = TRUE, !.locationError = Undefined]
    /\ UNCHANGED <<timeouts, selectedAge, performing, settled, engineRuns, changes, created>>
    /\ UNCHANGED nonDashVars

\* getCurrentLocation resolves: setLocation(locationData), a new object, and
\* setLocationLoading(false)
LocationResolves ==
    /\ performing = Idle
    /\ locating > 0
    /\ locating' = locating - 1
    /\ \E locationData \in DashLocations :
          Commit([dashboard EXCEPT !.location = locationData, !.locationLoading = FALSE], TRUE)
    /\ UNCHANGED <<timeouts, selectedAge, settled, changes, refreshes, created>>
    /\ UNCHANGED nonDashVars

\* getCurrentLocation rejects: setLocationError(message), setLocationLoading(false)
LocationRejects ==
    /\ performing = Idle
    /\ locating > 0
    /\ locating' = locating - 1
    /\ dashboard' = [dashboard EXCEPT !.locationError = [message |-> "GeolocationError"],
                                      !.locationLoading = FALSE]
    /\ UNCHANGED <<timeouts, selectedAge, performing, settled, engineRuns, changes, refreshes,
                   created>>
    /\ UNCHANGED nonDashVars

\* the state performAnalysis leaves: currentAnalysis once the first evaluation
\* has returned, monthlyScores once all 25 of the loop have, and
\* analysisLoading false from the finally block in every case
Analysed(state, first, analyses, id) ==
    IF first.threw # "no" THEN [state EXCEPT !.analysisLoading = FALSE]
    ELSE IF \E k \in DOMAIN analyses : analyses[k].threw # "no"
    THEN [state EXCEPT !.currentAnalysis = first, !.analysisLoading = FALSE]
    ELSE [state EXCEPT !.currentAnalysis = first,
                       !.monthlyScores = Scores(analyses, id),
                       !.analysisLoading = FALSE]

\* performAnalysis runs to its end
AnalysisSettles ==
    /\ performing # Idle
    /\ \E first \in {calculateOptimalTiming(performing.location, performing.date.time,
                                            DashDraws, runtime)} :
       \E analyses \in {MonthlyAnalyses(performing.location, performing.date.time, runtime)} :
          dashboard' = Analysed(dashboard, first, analyses, created + 1)
    /\ performing' = Idle
    /\ created' = created + 1
    /\ UNCHANGED <<timeouts, selectedAge, locating, settled, engineRuns, changes, refreshes>>
    /\ UNCHANGED nonDashVars

InitDashboard ==
    /\ Init
    /\ runtime = "v8"
    /\ location = [latitude |-> 0, country |-> "undefined"]
    /\ targetDate = [year |-> FirstYear, month |-> 0, day |-> 15, hour |-> 0]

NextDashboard ==
    \/ SliderMoved
    \/ RecommendedPeriodClicked
    \/ TimePasses
    \/ TimerFires
    \/ LocationRefresh
    \/ LocationResolves
    \/ LocationRejects
    \/ AnalysisSettles

SpecDashboard == InitDashboard /\ [][NextDashboard]_vars

\* a started performAnalysis runs to its end.  While it runs AnalysisSettles is
\* the one step that is possible, and that step leaves performing Idle, so
\* this is WF_vars(AnalysisSettles) stated on the state
AnalysisRunsOn == []<>(performing = Idle)

\* time passes, a due timer fires, and a started performAnalysis runs on
FairDashboard == WF_vars(TimePasses) /\ WF_vars(TimerFires) /\ AnalysisRunsOn

SpecDashboardFair == SpecDashboard /\ FairDashboard

(* ------------------------- fetchNOAASolarData ------------------------- *)
\* the draws enumerated for a cached sample
CacheDraws ==
    [sunspot : RandomDraws, flux : {0}, geomagnetic : {0}, halfDown : {FALSE}]

\* the arguments of a fetch: no date, or a Date (two days, two times of day)
NoDate == [undefined |-> TRUE]
FetchDates ==
    [year : {FirstYear}, month : {5}, day : {15, 16}, hour : {0, 12}]

\* Map.prototype.has, .get and .set on a Map held as a function
MapHas(map, key) == key \in DOMAIN map
MapGet(map, key) == map[key]
MapSet(map, key, value) == [k \in DOMAIN map \cup {key} |-> IF k = key THEN value ELSE map[k]]

\* the cache key of a fetch
DateKey(date) == IF date = NoDate THEN <<"current">> ELSE FormatDay(date)

\* the fetch that forgets to store its sample
CacheAfterFetchWithoutSet(cache, dateKey, simulatedData) == cache

\* the Map fetchNOAASolarData leaves behind
CacheAfterFetch(cache, dateKey, simulatedData) == MapSet(cache, dateKey, simulatedData)

\* one call fetchNOAASolarData(date).  calculateSolarActivityData does not
\* throw, so the catch branch is not taken.
FetchNOAASolarData ==
    /\ \E date \in FetchDates \cup {NoDate} :
          LET dateKey == DateKey(date)
          IN  IF MapHas(solarDataCache, dateKey)
              THEN /\ fetched' = [threw |-> "no", date |-> date, key |-> dateKey, cached |-> TRUE,
                                  data |-> MapGet(solarDataCache, dateKey)]
                   /\ UNCHANGED <<solarDataCache, firstProduced>>
              ELSE \E draws \in CacheDraws :
                      LET simulatedData ==
                              calculateSolarActivityData(IF date = NoDate THEN now ELSE date, draws)
                      IN  /\ solarDataCache' = CacheAfterFetch(solarDataCache, dateKey, simulatedData)
                          /\ fetched' = [threw |-> "no", date |-> date, key |-> dateKey,
                                         cached |-> FALSE,
                                         data |-> simulatedData]
                          /\ firstProduced' =
                                 IF dateKey \in DOMAIN firstProduced THEN firstProduced
                                 ELSE MapSet(firstProduced, dateKey, simulatedData)
    /\ UNCHANGED <<engineVars, rangeVars, now, solar, restVars>>

\* time passes: new Date() moves on by a month
Tick ==
    /\ now.month < 2
    /\ now' = addMonths(now, 1)
    /\ UNCHANGED <<engineVars, rangeVars, solarDataCache, fetched, firstProduced, solar, restVars>>

InitCache ==
    /\ Init
    /\ runtime = "v8"
    /\ location = [latitude |-> 0, country |-> "undefined"]
    /\ targetDate = [year |-> FirstYear, month |-> 0, day |-> 15, hour |-> 0]

NextCache == FetchNOAASolarData \/ Tick

SpecCache == InitCache /\ [][NextCache]_vars

(* ---------------------------- the solar model ------------------------- *)
CycleDates == [year : CycleFirstYear .. CycleLastYear, month : 0 .. 11, day : {15}, hour : {0}]

\* getSolarCycleForDate(targetDate) and calculateSolarActivityData(targetDate)
SolarActivityForDate ==
    /\ solar = NoResult
    /\ \E draws \in EngineDraws :
          solar' = [threw |-> "no",
                    cycle |-> getSolarCycleForDate(targetDate),
                    data |-> calculateSolarActivityData(targetDate, draws)]
    /\ UNCHANGED <<engineVars, rangeVars, cacheVars, restVars>>

InitCycle ==
    /\ runtime = "v8"
    /\ location = [latitude |-> 0, country |-> "undefined"]
    /\ targetDate \in CycleDates
    /\ result = NoResult
    /\ previous = NoResult
    /\ range = Idle
    /\ timing = NoResult
    /\ now = [year |-> FirstYear, month |-> 0, day |-> 15, hour |-> 0]
    /\ solarDataCache = <<>>
    /\ fetched = NoResult
    /\ firstProduced = <<>>
    /\ solar = NoResult
    /\ RestInit

NextCycle == SolarActivityForDate

SpecCycle == InitCycle /\ [][NextCycle]_vars

(* --------------------------- geocodeAddress ---------------------------- *)
\* An address is a word with or without blanks around it.  The words are a
\* city of getKnownLocations in lower case and capitalised, a place that is
\* in no list, and the empty word.
Words == {"", "sydney", "Sydney", "atlantis"}
Addresses == [word : Words, blanks : BOOLEAN]

\* String.prototype.trim
Trim(address) == address.word

\* String.prototype.toLowerCase
ToLowerCase(word) == IF word = "Sydney" THEN "sydney" ELSE word

\* the patterns of getKnownLocations that the words can contain
KnownPatterns == {"sydney"}

\* what Nominatim answers to a query when it finds a place: the answer is the
\* service's own and can differ from one request to the next, so it carries
\* the request that fetched it
NominatimResult(cleanAddress, request) ==
    [service |-> "nominatim", query |-> cleanAddress, request |-> request]

\* the fallback that finds a place for every address
geocodeWithSimpleServiceAny(cleanAddress) ==
    [threw |-> "no",
     value |-> [service |-> "known", query |-> ToLowerCase(cleanAddress), request |-> 0]]

\* geocodeWithSimpleService: the known location whose pattern the lower-cased
\* address includes, or the thrown Error
geocodeWithSimpleService(cleanAddress) ==
    IF ToLowerCase(cleanAddress) \in KnownPatterns
    THEN [threw |-> "no",
          value |-> [service |-> "known", query |-> ToLowerCase(cleanAddress), request |-> 0]]
    ELSE [threw |-> "Error"]

\* geocodingCache.set(cacheKey, result)
Store(cache, key, value) == MapSet(cache, key, value)

\* the cache check that never hits
CacheHitsNever(cache, key) == FALSE

\* geocodingCache.has(cacheKey)
CacheHits(cache, key) == MapHas(cache, key)

\* geocodeAddress(address) is called: the part up to the first await.  The
\* calls are numbered in the order they start.  stored is the history of
\* the calls of geocodingCache.set; seen is its length when the call starts
\* and during the calls that are awaiting a service at that moment.
GeocodeAddress(c) ==
    /\ geocodes[c].pc = "idle"
    /\ IF c = 1 THEN TRUE ELSE geocodes[c - 1].pc # "idle"
    /\ \E address \in Addresses :
          LET cleanAddress == Trim(address)
              cacheKey == ToLowerCase(cleanAddress)
              call == [address |-> address, key |-> cacheKey, seen |-> Len(stored),
                       during |-> {d \in 1 .. MaxCalls : geocodes[d].pc \in {"nominatim", "fallback"}},
                       invoked |-> <<>>, cacheRead |-> FALSE]
          IN  geocodes' = [geocodes EXCEPT ![c] =
                  IF cleanAddress = ""
                  THEN call @@ [pc |-> "rejected", code |-> "INVALID_INPUT"]
                  ELSE IF CacheHits(geocodingCache, cacheKey)
                  THEN [call EXCEPT !.cacheRead = TRUE]
                       @@ [pc |-> "resolved", value |-> MapGet(geocodingCache, cacheKey)]
                  ELSE [call EXCEPT !.cacheRead = TRUE, !.invoked = <<"nominatim">>]
                       @@ [pc |-> "nominatim"]]
    /\ UNCHANGED <<geocodingCache, stored>>
    /\ UNCHANGED nonGeoVars

\* the request to Nominatim of call c succeeds: the result is cached and returned
NominatimSucceeds(c) ==
    /\ geocodes[c].pc = "nominatim"
    /\ LET found == NominatimResult(Trim(geocodes[c].address), c)
       IN  /\ geocodingCache' = Store(geocodingCache, geocodes[c].key, found)
           /\ stored' = Append(stored, [call |-> c, key |-> geocodes[c].key, value |-> found])
           /\ geocodes' = [geocodes EXCEPT ![c] = [pc |-> "resolved", value |-> found] @@ @]
    /\ UNCHANGED nonGeoVars

\* the request to Nominatim of call c fails (network error, status not ok, or
\* no results): the catch block calls geocodeWithSimpleService and awaits it
NominatimFails(c) ==
    /\ geocodes[c].pc = "nominatim"
    /\ geocodes' = [geocodes EXCEPT ![c] =
           [pc |-> "fallback",
            pending |-> geocodeWithSimpleService(Trim(geocodes[c].address)),
            invoked |-> Append(@.invoked, "fallback")] @@ @]
    /\ UNCHANGED <<geocodingCache, stored>>
    /\ UNCHANGED nonGeoVars

\* the awaited fallback of call c has settled: its result is cached and
\* returned, or the call rejects with NO_RESULTS
FallbackSettles(c) ==
    /\ geocodes[c].pc = "fallback"
    /\ IF geocodes[c].pending.threw = "no"
       THEN /\ geocodingCache' = Store(geocodingCache, geocodes[c].key, geocodes[c].pending.value)
            /\ stored' = Append(stored, [call |-> c, key |-> geocodes[c].key,
                                         value |-> geocodes[c].pending.value])
            /\ geocodes' = [geocodes EXCEPT ![c] =
                   [pc |-> "resolved", value |-> geocodes[c].pending.value] @@ @]
       ELSE /\ geocodes' = [geocodes EXCEPT ![c] =
                   [pc |-> "rejected", code |-> "NO_RESULTS"] @@ @]
            /\ UNCHANGED <<geocodingCache, stored>>
    /\ UNCHANGED nonGeoVars

InitGeocode ==
    /\ Init
    /\ runtime = "v8"
    /\ location = [latitude |-> 0, country |-> "undefined"]
    /\ targetDate = [year |-> FirstYear, month |-> 0, day |-> 15, hour |-> 0]

NextGeocode ==
    \E c \in 1 .. MaxCalls :
        \/ GeocodeAddress(c)
        \/ NominatimSucceeds(c)
        \/ NominatimFails(c)
        \/ FallbackSettles(c)

SpecGeocode == InitGeocode /\ [][NextGeocode]_vars

(* ------------------------------ properties ----------------------------- *)
\* the call has returned a full OptimalTimingResult
Returned == result # NoResult /\ result.threw = "no"

\* the overall score times 1000, from the fields of the result: the solar
\* sub-score is max(0, 100 - |lifespanImpact| * 15), the geographic one is
\* max(0, 100 - |latitude|), the environmental one is 75
SolarTenths == Max(0, 1000 - Abs(result.solarData.lifespanImpact) * 15)
GeographicPoints == Max(0, 100 - Abs(location.latitude))
WeightedThousandths ==
    40 * SolarTenths + 350 * result.seasonalData.overallSeasonalScore
    + 150 * GeographicPoints + 10 * 750

\* C1: every result of calculateOptimalTiming has an integer overallScore in
\* [0,100] that is round(0.40*solar + 0.35*seasonal + 0.15*geographic +
\* 0.10*75) of sub-scores that each lie in [0,100]
C1_OverallScore ==
    Returned =>
        /\ result.overallScore \in 0 .. 100
        /\ 2 * Abs(1000 * result.overallScore - WeightedThousandths) <= 1000
        /\ SolarScore(result.solarData.lifespanImpact) \in 0 .. 100 * Scale
        /\ result.seasonalData.overallSeasonalScore \in 0 .. 100
        /\ GeographicScore(calculateDistanceFromEquator(location.latitude)) \in 0 .. 100 * Scale

\* a result whose solar sub-score is floored at 0 and whose weighted sum is
\* not a whole number
C1_Witness ==
    /\ Returned
    /\ Abs(result.solarData.lifespanImpact) * 15 > 1000
    /\ WeightedThousandths % 1000 # 0

\* C2: in every result, confidenceLevel is HIGH iff overallScore >= 80, MEDIUM
\* iff 60 <= overallScore < 80, LOW iff overallScore < 60
C2_ConfidenceLevel ==
    Returned =>
        /\ result.confidenceLevel = "HIGH" <=> result.overallScore >= 80
        /\ result.confidenceLevel = "MEDIUM" <=>
               (60 <= result.overallScore /\ result.overallScore < 80)
        /\ result.confidenceLevel = "LOW" <=> result.overallScore < 60

\* a result exactly on the MEDIUM threshold
C2_Witness ==
    /\ Returned
    /\ result.overallScore = 60
    /\ result.confidenceLevel = "MEDIUM"

\* C3: in the recommendations of every result, every string that contains the
\* CRITICAL marker comes before every string that does not
C3_CriticalFirst ==
    Returned =>
        \A i, j \in DOMAIN result.recommendations :
            (Includes(result.recommendations[i], CRITICAL)
             /\ ~Includes(result.recommendations[j], CRITICAL)) => i < j

\* a result in which the critical vitamin-D string, appended late in the
\* cascade, stands before the delaying string the solar branch appended first
C3_Witness ==
    /\ Returned
    /\ \E i, j \in DOMAIN result.recommendations :
          /\ i < j
          /\ Includes(result.recommendations[i], CRITICAL)
          /\ ~Includes(result.recommendations[i], DELAYING)
          /\ Includes(result.recommendations[j], DELAYING)
          /\ ~Includes(result.recommendations[j], CRITICAL)

\* C4: the recommendations of every result contain no string twice
C4_NoDuplicates ==
    Returned =>
        \A i, j \in DOMAIN result.recommendations :
            result.recommendations[i] = result.recommendations[j] => i = j

\* a result whose list holds strings of getSeasonalRecommendations next to
\* strings of the cascade, reordered by the sort
C4_Witness ==
    /\ Returned
    /\ \E i \in DOMAIN result.recommendations :
          result.recommendations[i] =
              Str(<<"Take extra precautions against infections during the first 6 months">>, 0)
    /\ Includes(result.recommendations[1], CRITICAL)
    /\ Len(result.recommendations) >= 8

\* C9: calculateOptimalTiming returns a full result and never throws, for every
\* latitude, month and country; the hemisphere-adjusted month is in 1..12
C9_NeverThrows ==
    /\ AdjustedMonth(getMonth(targetDate) + 1, location.latitude) \in 1 .. 12
    /\ result # NoResult =>
          /\ result.threw = "no"
          /\ DOMAIN result = {"threw", "birthDate", "overallScore", "lifeExpectancyDelta",
                              "confidenceLevel", "riskFactors", "recommendations",
                              "solarData", "seasonalData"}

\* a result for a southern latitude, a month the adjustment wraps around, and
\* a country that is not in the cutoff table
C9_Witness ==
    /\ Returned
    /\ location.latitude < 0
    /\ getMonth(targetDate) + 1 >= 7
    /\ location.country = "Unknown"

\* the month six months after m (1..12)
SixMonthsLater(m) == ((m + 5) % 12) + 1

\* the location mirrored into the other hemisphere
Mirrored(loc) == [loc EXCEPT !.latitude = -loc.latitude]

\* C10: at a southern latitude calculateDiseaseRisks and calculateInfectiousRisk
\* return the northern table row ((m+5) mod 12)+1, the row a northern location
\* gets six months later, and the offset applied twice gives m back
C10_SouthernOffset ==
    LET m == getMonth(targetDate) + 1
        row == NORTHERN_HEMISPHERE_DISEASE_RISKS[((m + 5) % 12) + 1]
        later == addMonths(targetDate, 6)
    IN  location.latitude < 0 =>
            /\ calculateDiseaseRisks(targetDate, location) = [threw |-> "no", value |-> row]
            /\ calculateInfectiousRisk(targetDate, location)
                   = [threw |-> "no", value |-> row.infectious]
            /\ calculateDiseaseRisks(targetDate, location)
                   = calculateDiseaseRisks(later, Mirrored(location))
            /\ calculateInfectiousRisk(targetDate, location)
                   = calculateInfectiousRisk(later, Mirrored(location))
            /\ SixMonthsLater(SixMonthsLater(m)) = m
            /\ Returned => result.seasonalData.infectiousRisk = Max(0, (row.infectious - 80) * 5)

\* a result for a southern latitude whose infectious risk is the one of the
\* row six months later and not the one of the birth month's own row
C10_Witness ==
    /\ Returned
    /\ location.latitude < 0
    /\ result.seasonalData.infectiousRisk
           # Max(0, (NORTHERN_HEMISPHERE_DISEASE_RISKS[getMonth(targetDate) + 1].infectious - 80) * 5)

\* the running analyzeTimingRange call has returned its TimingAnalysis
RangeDone == range.pc = "done"

\* C5 as stated: one call analyzeTimingRange(location, centerDate, N) invokes
\* the engine exactly 2N+1 times
C5_EngineCallsAsStated ==
    RangeDone => range.engineCalls = 2 * range.rangeMonths + 1

\* C5: one call analyzeTimingRange(location, centerDate, N) invokes the engine
\* exactly 2N+2 times: once per month offset in [-N, +N], and once more for
\* centerDate itself (currentTiming)
C5_EngineCalls ==
    RangeDone =>
        /\ range.engineCalls = 2 * range.rangeMonths + 2
        /\ Len(range.analyses) = 2 * range.rangeMonths + 1
        /\ \A k \in DOMAIN range.analyses :
              range.analyses[k].birthDate = addMonths(targetDate, k - 1 - range.rangeMonths)
        /\ timing.currentTiming.birthDate = targetDate

\* a finished call over a range of at least one month on either side
C5_Witness ==
    /\ RangeDone
    /\ range.rangeMonths >= 1
    /\ range.engineCalls = 2 * range.rangeMonths + 2

\* the evaluated months, and those among them that are optimal windows
Evaluated == {range.analyses[k] : k \in DOMAIN range.analyses}
Windows == {timing.optimalWindows[k] : k \in DOMAIN timing.optimalWindows}

\* C6: optimalWindows has exactly ceil((2N+1)*0.25) entries, in descending
\* overallScore order, each scoring at least as high as every evaluated month
\* that is not an optimal window
C6_OptimalWindows ==
    RangeDone =>
        /\ Len(timing.optimalWindows) = (2 * range.rangeMonths + 1 + 3) \div 4
        /\ Cardinality(Windows) = Len(timing.optimalWindows)
        /\ Windows \subseteq Evaluated
        /\ \A i, j \in DOMAIN timing.optimalWindows :
              i < j => timing.optimalWindows[i].overallScore >= timing.optimalWindows[j].overallScore
        /\ \A w \in Windows : \A a \in Evaluated \ Windows : w.overallScore >= a.overallScore

\* a finished call with two optimal windows of different scores out of five
\* months that were not evaluated in descending order of score
C6_Witness ==
    /\ RangeDone
    /\ Len(range.analyses) = 5
    /\ Len(timing.optimalWindows) = 2
    /\ timing.optimalWindows[1].overallScore > timing.optimalWindows[2].overallScore
    /\ range.analyses[1].overallScore < range.analyses[5].overallScore
    /\ \E a \in Evaluated \ Windows : a.overallScore < timing.optimalWindows[2].overallScore

\* both calls of the same arguments have returned
ReturnedTwice == Returned /\ previous # NoResult /\ previous.threw = "no"

\* C7: two calls with the same location and date return identical seasonalData,
\* and their sunspotNumber values differ by at most 20
C7_SeasonalDeterministic ==
    ReturnedTwice =>
        /\ previous.seasonalData = result.seasonalData
        /\ Abs(previous.solarData.sunspotNumber - result.solarData.sunspotNumber) <= 20

\* two calls that drew different noise: other sunspot numbers and other
\* overall scores, the same seasonalData
C7_Witness ==
    /\ ReturnedTwice
    /\ Abs(previous.solarData.sunspotNumber - result.solarData.sunspotNumber) >= 10
    /\ previous.overallScore # result.overallScore
    /\ previous.seasonalData = result.seasonalData

\* the key the claim names: 'current' without a date, else the calendar day
ClaimedKey(date) ==
    IF date = NoDate THEN <<"current">> ELSE <<date.year, date.month + 1, date.day>>

\* C8: every fetchNOAASolarData call returns the sample the first call for its
\* key ('yyyy-MM-dd', or 'current' without a date) produced, and a cached entry
\* is never overwritten or removed
C8_CacheKeepsFirstSample ==
    /\ [](/\ fetched # NoResult =>
                 /\ ClaimedKey(fetched.date) \in DOMAIN firstProduced
                 /\ fetched.data = firstProduced[ClaimedKey(fetched.date)]
          /\ \A key \in DOMAIN firstProduced :
                 MapHas(solarDataCache, key) /\ MapGet(solarDataCache, key) = firstProduced[key])
    /\ [][\A key \in DOMAIN solarDataCache :
              MapHas(solarDataCache', key)
              /\ MapGet(solarDataCache', key) = MapGet(solarDataCache, key)]_vars

\* a call without a date answered from the cache after the clock has moved on:
\* the sample returned is the one made for an earlier date
C8_Witness ==
    /\ fetched # NoResult
    /\ fetched.date = NoDate
    /\ fetched.cached
    /\ fetched.data.date # now
    /\ Cardinality(DOMAIN solarDataCache) >= 2

\* the solar model has returned the cycle and the data of targetDate
SolarReturned == solar # NoResult

\* the first tabulated year and the last one
TableStart == SOLAR_CYCLES[1].startYear
TableEnd == SOLAR_CYCLES[Len(SOLAR_CYCLES)].endYear

\* every cycle record the solar model can return for the years up to
\* CycleLastYear: the tabulated ones and the extrapolated ones
ReturnableCycles ==
    {SOLAR_CYCLES[i] : i \in DOMAIN SOLAR_CYCLES}
    \cup {predictFutureSolarCycle([year |-> y, month |-> 0, day |-> 15, hour |-> 0]) :
             y \in (TableEnd + 1) .. CycleLastYear}

\* the returnable cycles whose [startYear, endYear] lookup range holds the year
CyclesHolding(year) == {c \in ReturnableCycles : c.startYear <= year /\ year <= c.endYear}

\* C11: every cycle record the solar model can return has startYear < peakYear
\* < endYear, and every year from 1964 on lies in the [startYear, endYear]
\* lookup range of exactly one cycle
C11_CyclesPartitionYears ==
    SolarReturned =>
        /\ \A c \in ReturnableCycles : c.startYear < c.peakYear /\ c.peakYear < c.endYear
        /\ getYear(targetDate) >= TableStart =>
               /\ Cardinality(CyclesHolding(getYear(targetDate))) = 1
               /\ solar.cycle \in CyclesHolding(getYear(targetDate))

\* C12: every SeasonalRiskData returned by calculateSeasonalRisk has
\* vitaminDScore, infectiousRisk, relativeAgeAdvantage and overallSeasonalScore
\* each within [0,100]
C12_SeasonalFieldsInRange ==
    LET seasonalRisk == calculateSeasonalRisk(targetDate, location)
    IN  Returned =>
            /\ seasonalRisk.vitaminDScore \in 0 .. 100
            /\ seasonalRisk.infectiousRisk \in 0 .. 100
            /\ seasonalRisk.relativeAgeAdvantage \in 0 .. 100
            /\ seasonalRisk.overallSeasonalScore \in 0 .. 100
            /\ result.seasonalData.infectiousRisk = seasonalRisk.infectiousRisk

\* C13: in every result solarRisk is LOW iff sunspotNumber < 50, MEDIUM iff
\* 50 <= sunspotNumber < 100, HIGH iff sunspotNumber >= 100, and the mental
\* health multiplier is 1.3 iff sunspotNumber > 90, for the sunspotNumber of
\* the same result; the other solar fields belong to that same draw
C13_SolarDataConsistent ==
    Returned =>
        /\ result.solarData.solarRisk = "LOW" <=> result.solarData.sunspotNumber < 50
        /\ result.solarData.solarRisk = "MEDIUM" <=>
               (50 <= result.solarData.sunspotNumber /\ result.solarData.sunspotNumber < 100)
        /\ result.solarData.solarRisk = "HIGH" <=> result.solarData.sunspotNumber >= 100
        /\ result.solarData.mentalHealthMultiplier = 13 <=> result.solarData.sunspotNumber > 90
        /\ result.solarData.mentalHealthMultiplier \in {10, 13}
        /\ \E k \in RandomDraws :
              /\ result.solarData.sunspotNumber = calculateSunspotNumber(targetDate, k)
              /\ 2000 * result.solarData.uvRadiationLevel
                     = 5 * (2000 * Scale + 3 * Scale * result.solarData.sunspotNumber)

\* a result between the two thresholds: the risk is still MEDIUM and the
\* multiplier is already 1.3
C13_Witness ==
    /\ Returned
    /\ result.solarData.sunspotNumber > 90
    /\ result.solarData.sunspotNumber < 100
    /\ result.solarData.solarRisk = "MEDIUM"
    /\ result.solarData.mentalHealthMultiplier = 13

\* C14: every RiskFactor of a result has an integer impact from -100 to 100
C14_ImpactInRange ==
    Returned =>
        \A i \in DOMAIN result.riskFactors :
            result.riskFactors[i].impact \in -100 .. 100

\* a result whose solar factor carries the largest magnitude the bounds reach
C14_Witness ==
    /\ Returned
    /\ \E i \in DOMAIN result.riskFactors :
          /\ result.riskFactors[i].name = "Solar Activity Risk"
          /\ result.riskFactors[i].impact <= -80
    /\ \E i \in DOMAIN result.riskFactors :
          result.riskFactors[i].name = "Infection Season Risk"

\* C15: for every date in a year of the cycle table and every noise draw the
\* solar data has sunspotNumber >= 0 and uvRadiationLevel within [0, 11]
C15_TabulatedSolarDataInRange ==
    (SolarReturned /\ getYear(targetDate) \in TableStart .. TableEnd) =>
        /\ solar.data.sunspotNumber >= 0
        /\ solar.data.uvRadiationLevel >= 0
        /\ solar.data.uvRadiationLevel <= 11 * Scale

\* a tabulated date at which the clamp at zero is what keeps the sunspot number
\* from being negative
C15_Witness ==
    /\ SolarReturned
    /\ getYear(targetDate) \in TableStart .. TableEnd
    /\ solar.data.sunspotNumber = 0
    /\ solar.data.uvRadiationLevel = 5 * Scale

\* the geographic factors of a result
GeographicFactors ==
    SelectSeq(result.riskFactors, LAMBDA f : f.category = "geographic")

\* C16: every result has the geographic factor; at latitude 75 it is named
\* 'Latitude Challenge' with impact -24; whenever |latitude| >= 35 it is named
\* 'Latitude Challenge' with impact <= 0; and it is named 'Favorable Latitude'
\* exactly when round((35 - |latitude|) * 0.6) > 0
C16_GeographicFactor ==
    Returned =>
        /\ Len(GeographicFactors) = 1
        /\ location.latitude = 75 =>
              /\ GeographicFactors[1].name = "Latitude Challenge"
              /\ GeographicFactors[1].impact = -24
        /\ Abs(location.latitude) >= 35 =>
              /\ GeographicFactors[1].name = "Latitude Challenge"
              /\ GeographicFactors[1].impact <= 0
        /\ GeographicFactors[1].name = "Favorable Latitude"
              <=> MathRound((35 - Abs(location.latitude)) * 6, 10) > 0
        /\ GeographicFactors[1].name \in {"Favorable Latitude", "Latitude Challenge"}

\* a result for latitude 75, whose geographic factor is the challenge of -24
C16_Witness ==
    /\ Returned
    /\ location.latitude = 75
    /\ \E i \in DOMAIN result.riskFactors :
          /\ result.riskFactors[i].name = "Latitude Challenge"
          /\ result.riskFactors[i].impact = -24

\* a result for a latitude under 35 degrees, whose geographic factor is favorable
C16_WitnessFavorable ==
    /\ Returned
    /\ Abs(location.latitude) < 35
    /\ \E i \in DOMAIN result.riskFactors :
          result.riskFactors[i].name = "Favorable Latitude"

\* a result for latitude 35 exactly, where the impact is 0 and the name is the
\* challenge
C16_WitnessBoundary ==
    /\ Returned
    /\ Abs(location.latitude) = 35
    /\ \E i \in DOMAIN result.riskFactors :
          /\ result.riskFactors[i].name = "Latitude Challenge"
          /\ result.riskFactors[i].impact = 0

\* twelve times the yearInCycle that calculateSunspotNumber divides by the
\* cycle's length to get cycleProgress
YearInCycleTwelfths ==
    (getYear(targetDate) - solar.cycle.startYear) * 12 + getMonth(targetDate)

\* C17: for every date getSolarCycleForDate returns a cycle whose
\* [startYear, endYear] contains the date's year: a table row for a year inside
\* the table, otherwise the extrapolated cycle of 11 years with maxSunspots 140,
\* phase 'minimum' and cycleNumber 25 + ceil((year - 2030) / 11); so the
\* cycleProgress used by calculateSunspotNumber is never negative
C17_CycleContainsYear ==
    SolarReturned =>
        /\ getYear(targetDate) >= solar.cycle.startYear
        /\ getYear(targetDate) <= solar.cycle.endYear
        /\ getYear(targetDate) \in TableStart .. TableEnd =>
              \E i \in DOMAIN SOLAR_CYCLES : solar.cycle = SOLAR_CYCLES[i]
        /\ getYear(targetDate) \notin TableStart .. TableEnd =>
              /\ solar.cycle.endYear - solar.cycle.startYear = 11
              /\ solar.cycle.maxSunspots = 140
              /\ solar.cycle.phase = "minimum"
              /\ solar.cycle.cycleNumber = 25 + MathCeil(getYear(targetDate) - 2030, 11)
        /\ YearInCycleTwelfths >= 0

\* the same for the years from the start of the table on, where it holds
C17_CycleContainsYearFromTable ==
    (SolarReturned /\ getYear(targetDate) >= TableStart) => C17_CycleContainsYear

\* a date before the table for which the last table row is returned
C17_BeforeTable ==
    /\ SolarReturned
    /\ getYear(targetDate) < TableStart
    /\ solar.cycle = SOLAR_CYCLES[Len(SOLAR_CYCLES)]
    /\ YearInCycleTwelfths < 0

\* the name the primary solar factor must carry for a lifespanImpact in tenths
PrimarySolarName(li) ==
    IF li < -10 THEN "Solar Activity Risk"
    ELSE IF li > 5 THEN "Solar Minimum Benefit"
    ELSE "Solar Activity Neutral"

PrimarySolarNames ==
    {"Solar Activity Risk", "Solar Minimum Benefit", "Solar Activity Neutral"}
VitaminDNames == {"Vitamin D Advantage", "Vitamin D Deficiency Risk"}
OptionalNames ==
    {"UV Exposure Risk", "UV Protection Benefit", "Infection Season Risk",
     "Low Infection Period", "School Age Advantage"}

\* the positions of the factors of a result that satisfy a test on the name
\* or on the category
PositionsNamed(names) ==
    {i \in DOMAIN result.riskFactors : result.riskFactors[i].name \in names}
PositionsOfCategory(category) ==
    {i \in DOMAIN result.riskFactors : result.riskFactors[i].category = category}

\* C18: every riskFactors list holds exactly one primary solar factor, named by
\* the thresholds on lifespanImpact, exactly one vitamin D factor, exactly one
\* geographic factor and exactly one environmental factor, in that order with
\* the environmental factor last; only the UV, infection and school-age
\* factors are optional, so the list has between 4 and 7 entries
C18_RiskFactorStructure ==
    Returned =>
        /\ Cardinality(PositionsNamed(PrimarySolarNames)) = 1
        /\ Cardinality(PositionsNamed(VitaminDNames)) = 1
        /\ Cardinality(PositionsOfCategory("geographic")) = 1
        /\ Cardinality(PositionsOfCategory("environmental")) = 1
        /\ \A i \in PositionsNamed(PrimarySolarNames) :
              /\ result.riskFactors[i].name
                    = PrimarySolarName(result.solarData.lifespanImpact)
              /\ \A j \in PositionsNamed(VitaminDNames) : i < j
        /\ \A i \in PositionsNamed(VitaminDNames) :
              \A j \in PositionsOfCategory("geographic") : i < j
        /\ \A i \in PositionsOfCategory("geographic") :
              \A j \in PositionsOfCategory("environmental") : i < j
        /\ PositionsOfCategory("environmental") = {Len(result.riskFactors)}
        /\ \A i \in DOMAIN result.riskFactors :
              \/ i \in PositionsNamed(PrimarySolarNames)
              \/ i \in PositionsNamed(VitaminDNames)
              \/ i \in PositionsOfCategory("geographic")
              \/ i \in PositionsOfCategory("environmental")
              \/ i \in PositionsNamed(OptionalNames)
        /\ Cardinality(PositionsNamed({"UV Exposure Risk", "UV Protection Benefit"})) <= 1
        /\ Cardinality(PositionsNamed({"Infection Season Risk", "Low Infection Period"})) <= 1
        /\ Cardinality(PositionsNamed({"School Age Advantage"})) <= 1
        /\ Len(result.riskFactors) \in 4 .. 7

\* a result with every optional factor, seven entries in all
C18_Witness ==
    /\ Returned
    /\ Len(result.riskFactors) = 7
    /\ result.riskFactors[1].name = "Solar Activity Risk"

\* a result with no optional factor, and one whose primary solar factor is the
\* neutral one
C18_WitnessFour ==
    Returned /\ Len(result.riskFactors) = 4
C18_WitnessNeutral ==
    Returned /\ result.riskFactors[1].name = "Solar Activity Neutral"

\* a result whose primary solar factor is the benefit of a solar minimum
C18_WitnessBenefit ==
    /\ Returned
    /\ result.solarData.lifespanImpact > 5
    /\ result.riskFactors[1].name = "Solar Minimum Benefit"

\* the strings the cascade of a result appended, recomputed from the fields of
\* the result that the cascade reads, before deduplication and sorting
Appended ==
    RecommendationCascade(location, targetDate, result.solarData, result.seasonalData,
                          result.solarData.mentalHealthMultiplier, result.overallScore)

\* a string with the delaying marker and without the critical one
DelayingOnly(str) == Includes(str, DELAYING) /\ ~Includes(str, CRITICAL)
\* a string with neither marker
Unmarked(str) == ~Includes(str, DELAYING) /\ ~Includes(str, CRITICAL)

\* C19: in the final recommendations a non-critical string containing
\* 'Consider delaying' comes directly after the critical strings and before all
\* others, and the strings containing neither marker appear in the relative
\* order in which the cascade appended them
C19_DelayingThenCascadeOrder ==
    Returned =>
        /\ \A j \in DOMAIN result.recommendations :
              DelayingOnly(result.recommendations[j]) =>
                  /\ \A i \in 1 .. (j - 1) : ~Unmarked(result.recommendations[i])
                  /\ \A i \in DOMAIN result.recommendations :
                        Includes(result.recommendations[i], CRITICAL) => i < j
                  /\ \A i \in DOMAIN result.recommendations :
                        Unmarked(result.recommendations[i]) => j < i
        /\ SelectSeq(result.recommendations, Unmarked)
              = SelectSeq(SetSpread(Appended), Unmarked)

\* a result in which the sort moved a critical string in front of the delaying
\* string and several unmarked strings follow
C19_Witness ==
    /\ Returned
    /\ Len(result.recommendations) >= 5
    /\ Includes(result.recommendations[1], CRITICAL)
    /\ DelayingOnly(result.recommendations[2])
    /\ \A i \in 3 .. Len(result.recommendations) : Unmarked(result.recommendations[i])
    /\ DelayingOnly(Appended[1])

\* the closing summary strings among the recommendations of a result
ClosingStrings ==
    SelectSeq(result.recommendations,
              LAMBDA str : str \in {OPTIMAL_TIMING, GOOD_TIMING, ALTERNATIVE_TIMING})

\* C20: the recommendations of every result are non-empty and hold exactly one
\* of the three closing summary strings, the one of the result's tier:
\* 'Optimal timing confirmed...' iff confidenceLevel is HIGH, 'Good timing with
\* manageable risks...' iff MEDIUM, 'Consider alternative timing...' iff LOW
C20_OneClosingSummary ==
    Returned =>
        /\ Len(result.recommendations) >= 1
        /\ Len(ClosingStrings) = 1
        /\ ClosingStrings[1] = OPTIMAL_TIMING <=> result.confidenceLevel = "HIGH"
        /\ ClosingStrings[1] = GOOD_TIMING <=> result.confidenceLevel = "MEDIUM"
        /\ ClosingStrings[1] = ALTERNATIVE_TIMING <=> result.confidenceLevel = "LOW"

\* a result scored exactly 60, closed by the string of the MEDIUM tier
C20_Witness ==
    /\ Returned
    /\ result.overallScore = 60
    /\ result.confidenceLevel = "MEDIUM"
    /\ result.recommendations[Len(result.recommendations)] = GOOD_TIMING

\* results of the other two tiers
C20_WitnessHigh ==
    Returned /\ result.confidenceLevel = "HIGH" /\ ClosingStrings = <<OPTIMAL_TIMING>>
C20_WitnessLow ==
    Returned /\ result.confidenceLevel = "LOW" /\ ClosingStrings = <<ALTERNATIVE_TIMING>>

\* the positions of the evaluated months that lie in a calendar year
MonthsOfYear(year) ==
    {k \in DOMAIN range.analyses : getYear(range.analyses[k].birthDate) = year}

\* the sum of the overallScore of the evaluated months at a set of positions
RECURSIVE ScoreSum(_)
ScoreSum(positions) ==
    IF positions = {} THEN 0
    ELSE LET k == CHOOSE k \in positions : TRUE
         IN  range.analyses[k].overallScore + ScoreSum(positions \ {k})

\* the mean score of the months of centerDate's next calendar year exceeds the
\* mean of those of centerDate's calendar year by more than five points; there
\* are months of both years
MeanRisesByMoreThan(points) ==
    /\ MonthsOfYear(getYear(targetDate)) # {}
    /\ MonthsOfYear(getYear(targetDate) + 1) # {}
    /\ ScoreSum(MonthsOfYear(getYear(targetDate) + 1)) * Cardinality(MonthsOfYear(getYear(targetDate)))
         - ScoreSum(MonthsOfYear(getYear(targetDate))) * Cardinality(MonthsOfYear(getYear(targetDate) + 1))
       > points * Cardinality(MonthsOfYear(getYear(targetDate)))
                * Cardinality(MonthsOfYear(getYear(targetDate) + 1))

\* the same for the mean of the next year lying lower
MeanFallsByMoreThan(points) ==
    /\ MonthsOfYear(getYear(targetDate)) # {}
    /\ MonthsOfYear(getYear(targetDate) + 1) # {}
    /\ ScoreSum(MonthsOfYear(getYear(targetDate))) * Cardinality(MonthsOfYear(getYear(targetDate) + 1))
         - ScoreSum(MonthsOfYear(getYear(targetDate) + 1)) * Cardinality(MonthsOfYear(getYear(targetDate)))
       > points * Cardinality(MonthsOfYear(getYear(targetDate)))
                * Cardinality(MonthsOfYear(getYear(targetDate) + 1))

\* C21: yearlyTrend is 'improving' iff the mean overallScore of the evaluated
\* months of centerDate's calendar year + 1 exceeds the mean of those of
\* centerDate's calendar year by more than 5, 'declining' iff it is lower by
\* more than 5, and 'stable' otherwise, including whenever the window holds no
\* month of the next calendar year
C21_YearlyTrend ==
    RangeDone =>
        /\ timing.yearlyTrend \in {"improving", "declining", "stable"}
        /\ timing.yearlyTrend = "improving" <=> MeanRisesByMoreThan(5)
        /\ timing.yearlyTrend = "declining" <=> MeanFallsByMoreThan(5)
        /\ MonthsOfYear(getYear(targetDate) + 1) = {} => timing.yearlyTrend = "stable"

\* the means differ by exactly five points
MeansFiveApart ==
    /\ MonthsOfYear(getYear(targetDate)) # {}
    /\ MonthsOfYear(getYear(targetDate) + 1) # {}
    /\ Abs(ScoreSum(MonthsOfYear(getYear(targetDate) + 1)) * Cardinality(MonthsOfYear(getYear(targetDate)))
           - ScoreSum(MonthsOfYear(getYear(targetDate))) * Cardinality(MonthsOfYear(getYear(targetDate) + 1)))
       = 5 * Cardinality(MonthsOfYear(getYear(targetDate)))
           * Cardinality(MonthsOfYear(getYear(targetDate) + 1))

\* the trend is as C21 states whenever the means are not exactly five apart
C21_YearlyTrendAwayFromFive ==
    (RangeDone /\ ~MeansFiveApart) => C21_YearlyTrend

\* a finished call that reports a rising trend for means exactly five apart
C21_ImprovingAtFive ==
    RangeDone /\ MeansFiveApart /\ timing.yearlyTrend = "improving"

\* the cutoff month the country table gives, 9 for an unlisted or missing country
TableCutoff(country) ==
    CASE country \in {"US", "UK", "Canada", "France"} -> 9
      [] country = "Australia" -> 1
      [] country = "Germany" -> 6
      [] country = "Japan" -> 4
      [] OTHER -> 9

\* a date in the calendar month (1..12) of the target year
DateInMonth(birthMonth) == [targetDate EXCEPT !.month = birthMonth - 1]

\* the calendar month that lies k months after the cutoff month of a country
MonthAfterCutoff(country, k) == ((TableCutoff(country) - 1 + k) % 12) + 1

\* C22: for every country and birth month calculateRelativeAgeEffect scores
\* max(0, 100 - 8.33 * ((birthMonth - cutoff + 12) mod 12)), the cutoff taken
\* from the country table and 9 for an unlisted or missing country: the cutoff
\* month scores highest, every further month after it scores less, and the
\* month just before the cutoff scores lowest.  Scores are in hundredths.
C22_RelativeAgeEffect ==
    Returned =>
        /\ \A birthMonth \in 1 .. 12 :
              calculateRelativeAgeEffect(DateInMonth(birthMonth), location.country)
                 = Max(0, 100 * 100
                          - 833 * ((birthMonth - TableCutoff(location.country) + 12) % 12))
        /\ \A birthMonth \in 1 .. 12 :
              calculateRelativeAgeEffect(DateInMonth(birthMonth), location.country)
                 <= calculateRelativeAgeEffect(
                        DateInMonth(MonthAfterCutoff(location.country, 0)), location.country)
        /\ \A k \in 0 .. 10 :
              calculateRelativeAgeEffect(
                  DateInMonth(MonthAfterCutoff(location.country, k + 1)), location.country)
                 < calculateRelativeAgeEffect(
                       DateInMonth(MonthAfterCutoff(location.country, k)), location.country)
        /\ \A birthMonth \in 1 .. 12 :
              calculateRelativeAgeEffect(DateInMonth(birthMonth), location.country)
                 >= calculateRelativeAgeEffect(
                        DateInMonth(MonthAfterCutoff(location.country, 11)), location.country)
        /\ result.seasonalData.relativeAgeAdvantage
              = MathRound(calculateRelativeAgeEffect(targetDate, location.country), 100)

\* a birth in Germany in May, the month just before the cutoff of June, which
\* scores 100 - 11 * 8.33 = 8.37
C22_Witness ==
    /\ Returned
    /\ location.country = "Germany"
    /\ getMonth(targetDate) + 1 = 5
    /\ calculateRelativeAgeEffect(targetDate, location.country) = 837
    /\ result.seasonalData.relativeAgeAdvantage = 8

\* a birth in an unlisted country in September, the default cutoff month
C22_WitnessDefault ==
    /\ Returned
    /\ location.country = "Unknown"
    /\ getMonth(targetDate) + 1 = 9
    /\ result.seasonalData.relativeAgeAdvantage = 100

\* the two strings the cascade appends for an elevated mental health risk
MentalHealthStrings ==
    {Str(<<"Elevated mental health risks detected - establish care team including mental health specialist">>, 0)}
    \cup {Str(<<"Create postpartum support plan with emphasis on {} seasonal factors">>, monthName) :
             monthName \in 1 .. 12}

\* C23: no result contains the mental-health recommendations: the multiplier
\* of calculateMentalHealthRisk is always 1.0 or 1.3 and the cascade requires it
\* to be strictly greater than 1.3
C23_NoMentalHealthStrings ==
    Returned =>
        /\ result.solarData.mentalHealthMultiplier \in {10, 13}
        /\ \A i \in DOMAIN result.recommendations :
              result.recommendations[i] \notin MentalHealthStrings

\* a result at solar maximum: the multiplier is 1.3, the largest there is, and
\* the strings are absent
C23_Witness ==
    /\ Returned
    /\ result.solarData.sunspotNumber > 90
    /\ result.solarData.mentalHealthMultiplier = 13
    /\ \A i \in DOMAIN result.recommendations :
          result.recommendations[i] \notin MentalHealthStrings

\* a result holds one of the two 'Consider delaying conception' strings
AdvisesDelay ==
    \E i \in DOMAIN result.recommendations :
        Includes(result.recommendations[i], DELAYING)

\* C24: no result contains both a 'Consider delaying conception' string and
\* the 'Optimal timing confirmed' closing string: whenever lifespanImpact < -3
\* the overallScore is below 80 and confidenceLevel is not HIGH, for every
\* latitude and seasonal score, the most favourable ones (the equator and a
\* seasonal score of 100) included
C24_NoDelayWithOptimal ==
    Returned =>
        /\ ~(AdvisesDelay /\ OPTIMAL_TIMING \in {result.recommendations[i] : i \in DOMAIN result.recommendations})
        /\ AdvisesDelay <=> result.solarData.lifespanImpact < -30
        /\ result.solarData.lifespanImpact < -30 =>
              /\ result.overallScore < 80
              /\ result.confidenceLevel # "HIGH"
        /\ \A lifespanImpact \in -72 .. -31 : \A halfDown \in BOOLEAN :
              OverallScore(SolarScore(lifespanImpact), 100, GeographicScore(0),
                           EnvironmentalScore, halfDown) < 80

\* a result that advises a delay although its score is in the MEDIUM tier
C24_Witness ==
    /\ Returned
    /\ AdvisesDelay
    /\ result.solarData.lifespanImpact < -30
    /\ result.overallScore >= 65
    /\ GOOD_TIMING \in {result.recommendations[i] : i \in DOMAIN result.recommendations}

\* the 'Excellent solar conditions detected' strings, one per printed impact
ExcellentSolarStrings ==
    {Str(<<"Excellent solar conditions detected - optimal timing from a solar cycle perspective (+{} years lifespan benefit)">>,
         lifespanImpact) : lifespanImpact \in -100 .. 100}

C25_WitnessLowest ==
    /\ Returned
    /\ result.solarData.sunspotNumber > 200
    /\ result.solarData.lifespanImpact = -72

(* ------------------------------- C26, C27 ------------------------------ *)
Started(c) == geocodes[c].pc # "idle"
Finished(c) == geocodes[c].pc \in {"resolved", "rejected"}
SameAddress(c, d) ==
    ToLowerCase(Trim(geocodes[c].address)) = ToLowerCase(Trim(geocodes[d].address))

\* the positions, among the first n calls of geocodingCache.set, of those
\* for the address of call c
StoresFor(c, n) ==
    {j \in 1 .. n : ToLowerCase(Trim(geocodes[stored[j].call].address))
                      = ToLowerCase(Trim(geocodes[c].address))}
LastOf(positions) == CHOOSE j \in positions : \A k \in positions : k <= j

\* a call that starts after a successful call for the same address has
\* completed returns the cached result and invokes no service
CachedCallsInvokeNothing ==
    \A c \in 1 .. MaxCalls :
        Started(c) /\ StoresFor(c, geocodes[c].seen) # {}
            => /\ geocodes[c].pc = "resolved"
               /\ geocodes[c].invoked = <<>>
               /\ geocodes[c].value = stored[LastOf(StoresFor(c, geocodes[c].seen))].value

\* call d started while call c for the same address was awaiting a service
Overlap(c, d) == Started(d) /\ c \in geocodes[d].during /\ SameAddress(c, d)

\* C26 as stated: a call after a completed successful call for the same address
\* returns the cached result without invoking a service; of two overlapping
\* calls for the same address each invokes a service, and once both have
\* returned the cache holds the result of the one that stored later.
C26_OverlappingPairsEachInvoke ==
    /\ CachedCallsInvokeNothing
    /\ \A c, d \in 1 .. MaxCalls :
          Overlap(c, d)
              => /\ geocodes[c].invoked # <<>>
                 /\ geocodes[d].invoked # <<>>
                 /\ geocodes[c].pc = "resolved" /\ geocodes[d].pc = "resolved"
                        => geocodingCache[geocodes[c].key]
                             = stored[LastOf(StoresFor(c, Len(stored)) \cap
                                   {j \in 1 .. Len(stored) : stored[j].call \in {c, d}})].value

\* C26, amended: a call after a completed successful call for the same address
\* returns the cached result without invoking a service; of two overlapping
\* calls for the same address, the second starting before any call has stored
\* a result for it, each invokes a service, and the cache holds for every
\* address the result of the call that stored last.
C26_NoCoalescing ==
    /\ CachedCallsInvokeNothing
    /\ \A c, d \in 1 .. MaxCalls :
          Overlap(c, d) /\ StoresFor(d, geocodes[d].seen) = {}
              => geocodes[c].invoked # <<>> /\ geocodes[d].invoked # <<>>
    /\ \A c \in 1 .. MaxCalls :
          Started(c) /\ StoresFor(c, Len(stored)) # {}
              => /\ MapHas(geocodingCache, ToLowerCase(Trim(geocodes[c].address)))
                 /\ MapGet(geocodingCache, ToLowerCase(Trim(geocodes[c].address)))
                      = stored[LastOf(StoresFor(c, Len(stored)))].value

\* two overlapping calls have both fetched and stored, the cache holds the
\* later result, and a third call that started afterwards got it from the cache
C26_Witness ==
    /\ Overlap(1, 2)
    /\ geocodes[1].pc = "resolved" /\ geocodes[2].pc = "resolved"
    /\ geocodes[1].value # geocodes[2].value
    /\ Len(stored) = 2 /\ stored[2].call = 1
    /\ geocodes[3].pc = "resolved" /\ geocodes[3].seen = 2
    /\ geocodes[3].address # geocodes[1].address /\ SameAddress(1, 3)
    /\ geocodes[3].invoked = <<>>
    /\ geocodes[3].value = geocodes[1].value
    /\ MapGet(geocodingCache, "sydney") = geocodes[1].value

\* C27: an empty or whitespace-only address is rejected with INVALID_INPUT
\* before the cache or a service is touched; a call whose Nominatim request
\* failed has tried the known-locations fallback, and when that fails too it
\* rejects with NO_RESULTS; no rejection changes the cache, so that a later
\* call for the address of a rejected call, with nothing cached for it,
\* invokes the services again.
C27_ErrorsLeaveCache ==
    /\ [](\A c \in 1 .. MaxCalls :
            /\ Started(c) /\ Trim(geocodes[c].address) = ""
                  => /\ geocodes[c].pc = "rejected" /\ geocodes[c].code = "INVALID_INPUT"
                     /\ geocodes[c].invoked = <<>> /\ ~geocodes[c].cacheRead
            /\ Started(c) /\ Trim(geocodes[c].address) # "" /\ geocodes[c].pc = "rejected"
                  => /\ geocodes[c].code = "NO_RESULTS"
                     /\ geocodes[c].invoked = <<"nominatim", "fallback">>
            /\ geocodes[c].pc = "fallback" => geocodes[c].invoked = <<"nominatim", "fallback">>
            /\ (Finished(c) /\ Len(geocodes[c].invoked) = 2
                  /\ ToLowerCase(Trim(geocodes[c].address)) \notin KnownPatterns)
                  => geocodes[c].pc = "rejected" /\ geocodes[c].code = "NO_RESULTS"
            /\ \A d \in 1 .. MaxCalls :
                  (geocodes[c].pc = "rejected" /\ geocodes[c].code = "NO_RESULTS"
                     /\ Started(d) /\ c < d /\ c \notin geocodes[d].during /\ SameAddress(c, d)
                     /\ StoresFor(d, geocodes[d].seen) = {})
                  => geocodes[d].invoked # <<>> /\ geocodes[d].invoked[1] = "nominatim")
    /\ [][\A c \in 1 .. MaxCalls :
            geocodes[c].pc # "rejected" /\ geocodes'[c].pc = "rejected"
                => geocodingCache' = geocodingCache]_vars

\* a whitespace-only address was rejected, a call for a place in no list was
\* rejected after both services failed, nothing is cached for that place, and
\* a later call for it is asking Nominatim again
C27_Witness ==
    /\ \A c \in 1 .. MaxCalls : Started(c)
    /\ geocodes[1].address = [word |-> "", blanks |-> TRUE]
    /\ geocodes[1].pc = "rejected" /\ geocodes[1].code = "INVALID_INPUT"
    /\ geocodes[2].pc = "rejected" /\ geocodes[2].code = "NO_RESULTS"
    /\ geocodes[2].invoked = <<"nominatim", "fallback">>
    /\ ~MapHas(geocodingCache, geocodes[2].key)
    /\ geocodes[3].pc = "nominatim" /\ SameAddress(2, 3) /\ geocodes[3].during = {}

(* --------------------------------- C28 --------------------------------- *)
\* the positions in the chronological list of the evaluations whose
\* overallScore is maximal, and of those whose overallScore is minimal
MaximalMonths(analyses) ==
    {i \in DOMAIN analyses : \A k \in DOMAIN analyses : analyses[k].overallScore <= analyses[i].overallScore}
MinimalMonths(analyses) ==
    {i \in DOMAIN analyses : \A k \in DOMAIN analyses : analyses[k].overallScore >= analyses[i].overallScore}
Earliest(positions) == CHOOSE i \in positions : \A k \in positions : i <= k
Latest(positions) == CHOOSE i \in positions : \A k \in positions : k <= i

\* C28: bestOverallMonth is the calendar month (1..12) of the chronologically
\* earliest evaluation with maximal overallScore, and worstOverallMonth that of
\* the chronologically latest evaluation with minimal overallScore.
C28_BestAndWorstMonth ==
    range.pc = "done"
        => /\ timing.bestOverallMonth \in 1 .. 12
           /\ timing.worstOverallMonth \in 1 .. 12
           /\ timing.bestOverallMonth
                = range.analyses[Earliest(MaximalMonths(range.analyses))].birthDate.month + 1
           /\ timing.worstOverallMonth
                = range.analyses[Latest(MinimalMonths(range.analyses))].birthDate.month + 1

\* a returned range in which several months share the maximal score and
\* several the minimal one, neither group including all months
C28_Witness ==
    /\ range.pc = "done"
    /\ Cardinality(MaximalMonths(range.analyses)) > 1
    /\ Cardinality(MinimalMonths(range.analyses)) > 1
    /\ MaximalMonths(range.analyses) \cap MinimalMonths(range.analyses) = {}
    /\ timing.bestOverallMonth
         # range.analyses[Latest(MaximalMonths(range.analyses))].birthDate.month + 1
    /\ timing.worstOverallMonth
         # range.analyses[Earliest(MinimalMonths(range.analyses))].birthDate.month + 1

\* the same under either sorting algorithm
C28_WitnessInsertion == C28_Witness /\ runtime = "insertion"

(* --------------------------------- C29 --------------------------------- *)
\* every entry of part is an entry of whole
EntriesOf(part, whole) ==
    \A k \in DOMAIN part : \E j \in DOMAIN whole : whole[j] = part[k]
Descending(windows) ==
    \A k \in 1 .. Len(windows) - 1 : windows[k].overallScore >= windows[k + 1].overallScore

\* C29: the alternatives of a returned report are at most 3 entries of the
\* optimalWindows of the range of 12 months around the selected date, in
\* descending overallScore order, none of them for the selected date; the
\* analysis of the report is the evaluation made before the range was started,
\* not one of the 2 * 12 + 2 evaluations of the range.
C29_ReportAlternatives ==
    report.pc = "done"
        => /\ range.rangeMonths = 12
           /\ Len(report.value.alternatives) <= 3
           /\ EntriesOf(report.value.alternatives, timing.optimalWindows)
           /\ Descending(report.value.alternatives)
           /\ \A k \in DOMAIN report.value.alternatives :
                  report.value.alternatives[k].birthDate # targetDate
           /\ report.value.analysis = report.analysis
           /\ report.value.analysis.birthDate = targetDate
           /\ range.engineCalls = 2 * 12 + 2

\* a returned report whose selected date is one of the three best windows of
\* the range, so that the filter removes it, and whose analysis differs from
\* the evaluation of the selected date that the range ranked
C29_Witness ==
    /\ report.pc = "done"
    /\ \E j \in 1 .. 3 : timing.optimalWindows[j].birthDate = targetDate
    /\ Len(report.value.alternatives) = 3
    /\ report.value.alternatives[3] = timing.optimalWindows[4]
    /\ range.analyses[ReportRange + 1].birthDate = targetDate
    /\ report.value.analysis # range.analyses[ReportRange + 1]
    /\ report.value.analysis.overallScore # range.analyses[ReportRange + 1].overallScore

(* --------------------------------- C30 --------------------------------- *)
\* every change of selectedDate leaves exactly one pending timer, a new one
\* for the new date
TimerRestarted ==
    [][dashboard'.selectedDate # dashboard.selectedDate
          => timeouts' = {[date |-> dashboard'.selectedDate, age |-> 0]}]_vars

\* performAnalysis ends with analysisLoading false
LoadingReset ==
    [][performing # Idle /\ performing' = Idle => ~dashboard'.analysisLoading]_vars

\* the dashboard at rest
AtRest ==
    /\ dashboard.debouncedDate = dashboard.selectedDate
    /\ ~dashboard.isSliding
    /\ ~dashboard.analysisLoading

\* whenever the date changes stop, after however many changes, the dashboard
\* comes to rest after the last of them
ComesToRest ==
    \A n \in 0 .. MaxChanges : <>[](changes = n) => <>(changes = n /\ AtRest)

====
